---------------------------- MODULE Spec2Model ----------------------------
(***************************************************************************)
(* Country-metrics pipeline (scripts/process_country_metrics.py) and the   *)
(* validators (src/utils/validators.py) of city-geo-warehouse.             *)
(*                                                                         *)
(* A pandas DataFrame is a record [columns, rows]: columns is the sequence *)
(* of column labels, rows the sequence of rows, each row a function from   *)
(* the column labels to cell values.  A cell value is a tuple: <<>> is the *)
(* missing value (NaN), <<s>> a string, <<n, d>> the number n/d in lowest  *)
(* terms with d > 0.  Numbers are exact rationals: float64 rounding of     *)
(* pandas is not modelled.                                                 *)
(***************************************************************************)
EXTENDS Integers, Sequences, FiniteSets, TLC

VARIABLES pc,        \* position of the run being modelled
          ind,       \* name of the indicator whose pipeline runs
          raw,       \* table returned by pd.read_csv for that indicator
          out,       \* table (or error) returned by the indicator pipeline
          again,     \* out grouped once more by (code, name, year) with mean
          first,     \* index in generators of the first table of dfs
          dfs,       \* list of per-indicator tables handed to _merge_metrics
          combined,  \* table (or error) returned by _merge_metrics
          vdf,       \* table handed to the validators
          required,  \* required-field list handed to validate_required_fields
          verdict,   \* outcome of the validators
          artifact,  \* content of OUTPUT_PATH (data/processed/country_metrics.csv)
          previous,  \* content of OUTPUT_PATH when the run started
          writes,    \* number of combined.to_csv(OUTPUT_PATH) calls of the run
          raised,    \* exception that left the entry point, or NoError
          sink,      \* the ETL whose table is loaded: "country" or "city"
          store,     \* committed rows of the sink's table
          batch,     \* table handed to load
          pending,   \* rows of the table as seen inside the open transaction
          done,      \* records of batch the INSERT has processed
          committed, \* committed rows when load was called
          latest,    \* per key, the record last loaded with success
          loads,     \* number of load invocations so far
          cities,    \* the list of cities handed to CityDataETL.extract
          collected, \* what the collector answered for the cities visited so far
          city_data, \* the records extract has appended
          env,       \* the configuration values of the process environment
          events     \* the resources touched since the entry point was called

coreVars == <<pc, ind, raw, out, again, first, dfs, combined, vdf, required, verdict>>
runVars == <<artifact, previous, writes, raised>>
etlVars == <<sink, store, batch, pending, done, committed, latest, loads>>
cityVars == <<cities, collected, city_data>>
cfgVars == <<env, events>>
later == <<cityVars, cfgVars>>
notRun == <<etlVars, later>>
restVars == <<runVars, notRun>>
vars == <<coreVars, restVars>>

-----------------------------------------------------------------------------
(* Cell values *)

NaN == <<>>
Str(s) == <<s>>
Abs(n) == IF n < 0 THEN -n ELSE n

RECURSIVE Gcd(_, _)
Gcd(a, b) == IF b = 0 THEN a ELSE Gcd(b, a % b)

\* the number n/d (d # 0) in lowest terms, denominator positive
Num(n, d) ==
    LET g == Gcd(Abs(n), Abs(d))
        s == IF d < 0 THEN -1 ELSE 1
    IN  <<(s * n) \div g, (s * d) \div g>>

IntV(n) == <<n, 1>>
notna(v) == v # NaN
isna(v) == v = NaN

Add(a, b) == Num(a[1] * b[2] + b[1] * a[2], a[2] * b[2])
Div(a, k) == Num(a[1], a[2] * k)
Mul(a, k) == Num(a[1] * k, a[2])
Lt(a, b) == a[1] * b[2] < b[1] * a[2]
Le(a, b) == a[1] * b[2] <= b[1] * a[2]

RECURSIVE SumSeq(_)
SumSeq(s) == IF s = <<>> THEN IntV(0) ELSE Add(Head(s), SumSeq(Tail(s)))

\* Series.mean() over non-missing values: sum divided by count
MeanSumOnly(s) == SumSeq(s)
Mean(s) == Div(SumSeq(s), Len(s))

-----------------------------------------------------------------------------
(* Strings: TLC strings are atomic, so the characters of the period labels *)
(* and the lexicographic order of the identifiers are tabulated.           *)

LabelChars ==
    ("2014" :> <<"2", "0", "1", "4">>) @@
    ("2015" :> <<"2", "0", "1", "5">>) @@
    ("2016" :> <<"2", "0", "1", "6">>) @@
    ("2014-12" :> <<"2", "0", "1", "4", "-", "1", "2">>) @@
    ("2015-01" :> <<"2", "0", "1", "5", "-", "0", "1">>) @@
    ("2015-02" :> <<"2", "0", "1", "5", "-", "0", "2">>) @@
    ("2014-Q4" :> <<"2", "0", "1", "4", "-", "Q", "4">>) @@
    ("2015-Q1" :> <<"2", "0", "1", "5", "-", "Q", "1">>) @@
    ("2015-Q2" :> <<"2", "0", "1", "5", "-", "Q", "2">>)

\* str(c): the characters of a column label; a label outside the table is a
\* name without digits, kept as one symbol
Chars(c) == IF c \in DOMAIN LabelChars THEN LabelChars[c] ELSE <<c>>

DigitVal ==
    ("0" :> 0) @@ ("1" :> 1) @@ ("2" :> 2) @@ ("3" :> 3) @@ ("4" :> 4) @@
    ("5" :> 5) @@ ("6" :> 6) @@ ("7" :> 7) @@ ("8" :> 8) @@ ("9" :> 9)

IsDigit(ch) == ch \in DOMAIN DigitVal

AllDigits(s) == \A i \in DOMAIN s : IsDigit(s[i])

\* re.fullmatch(r'\d{4}', str(c))
MatchAnnual(c) ==
    LET s == Chars(c) IN Len(s) = 4 /\ AllDigits(s)

\* re.fullmatch(r'\d{4}-\d{2}', str(c))
MatchMonthly(c) ==
    LET s == Chars(c)
    IN  Len(s) = 7 /\ AllDigits(SubSeq(s, 1, 4)) /\ s[5] = "-"
        /\ AllDigits(SubSeq(s, 6, 7))

\* re.fullmatch(r'\d{4}-Q\d', str(c))
MatchQuarterly(c) ==
    LET s == Chars(c)
    IN  Len(s) = 7 /\ AllDigits(SubSeq(s, 1, 4)) /\ s[5] = "-"
        /\ s[6] = "Q" /\ IsDigit(s[7])

\* the three patterns for period columns, and re.fullmatch(pattern, str(c))
ANNUAL == "\\d{4}"
MONTHLY == "\\d{4}-\\d{2}"
QUARTERLY == "\\d{4}-Q\\d"
match(pattern, c) ==
    LET s == Chars(c)
    IN  CASE pattern = ANNUAL -> Len(s) >= 4 /\ AllDigits(SubSeq(s, 1, 4))
          [] pattern = MONTHLY -> Len(s) >= 7 /\ MatchMonthly(c)
          [] pattern = QUARTERLY -> Len(s) >= 7 /\ MatchQuarterly(c)
fullmatch(pattern, c) ==
    CASE pattern = ANNUAL -> MatchAnnual(c)
      [] pattern = MONTHLY -> MatchMonthly(c)
      [] pattern = QUARTERLY -> MatchQuarterly(c)

\* Series.str.slice(0, 4)
Slice04(s) == SubSeq(s, 1, IF Len(s) < 4 THEN Len(s) ELSE 4)

\* int() of a string of digits
RECURSIVE ToInt(_)
ToInt(s) ==
    IF s = <<>> THEN 0
    ELSE 10 * ToInt(SubSeq(s, 1, Len(s) - 1)) + DigitVal[s[Len(s)]]

\* the strings of the model in lexicographic (code point) order
StrOrder == <<"DE", "Deutschland", "FR", "France", "Germany">>
StrRank(s) == CHOOSE i \in DOMAIN StrOrder : StrOrder[i] = s


-----------------------------------------------------------------------------
(* DataFrame operations, with the semantics of pandas *)

Range(s) == {s[i] : i \in DOMAIN s}

DataFrame(columns, rows) == [columns |-> columns, rows |-> rows]

\* an exception propagating out of a call
Error(kind) == [error |-> kind]
IsError(x) == "error" \in DOMAIN x

\* no file and no exception
NoFile == [absent |-> TRUE]
NoError == [none |-> TRUE]

\* the variables of the runs that are not the one being modelled
RunIdle ==
    /\ artifact = NoFile
    /\ previous = NoFile
    /\ writes = 0
    /\ raised = NoError
EtlIdle ==
    /\ sink = "none"
    /\ store = {}
    /\ batch = [columns |-> <<>>, rows |-> <<>>]
    /\ pending = {}
    /\ done = 0
    /\ committed = {}
    /\ latest = <<>>
    /\ loads = 0
LaterIdle ==
    /\ cities = <<>>
    /\ collected = <<>>
    /\ city_data = <<>>
    /\ env = <<>>
    /\ events = <<>>
NotRunIdle == EtlIdle /\ LaterIdle
RestIdle == RunIdle /\ NotRunIdle

Cols(df) == Range(df.columns)

\* DataFrame.empty
empty(df) == Len(df.rows) = 0

\* df[[c1, c2, ...]]
Project(df, columns) ==
    DataFrame(columns,
              [i \in 1..Len(df.rows) |->
                  [c \in Range(columns) |-> df.rows[i][c]]])

\* df.rename(columns=m): labels absent from the frame are ignored
Rename(df, m) ==
    LET new(c) == IF c \in DOMAIN m THEN m[c] ELSE c
        old(c) == CHOOSE k \in Cols(df) : new(k) = c
    IN  DataFrame([i \in 1..Len(df.columns) |-> new(df.columns[i])],
                  [i \in 1..Len(df.rows) |->
                      [c \in {new(k) : k \in Cols(df)} |-> df.rows[i][old(c)]]])

\* df.drop(columns=[col])
Drop(df, col) ==
    LET keep == SelectSeq(df.columns, LAMBDA c : c # col)
    IN  Project(df, keep)

\* df[col] = series: the series, one value per row, appended as the last column
Assign(df, col, series) ==
    DataFrame(Append(df.columns, col),
              [i \in 1..Len(df.rows) |->
                  [c \in Cols(df) \cup {col} |->
                      IF c = col THEN series[i] ELSE df.rows[i][c]]])

\* df.melt(id_vars, value_vars, var_name, value_name): one row per cell of a
\* value column, column by column, each column's rows in frame order
Melt(df, id_vars, value_vars, var_name, value_name) ==
    LET n == Len(df.rows)
        cell(k) ==
            LET v == value_vars[((k - 1) \div n) + 1]
                r == df.rows[((k - 1) % n) + 1]
            IN  [c \in Range(id_vars) \cup {var_name, value_name} |->
                    IF c = var_name THEN Str(v)
                    ELSE IF c = value_name THEN r[v]
                    ELSE r[c]]
    IN  DataFrame(id_vars \o <<var_name, value_name>>,
                  [k \in 1..(n * Len(value_vars)) |-> cell(k)])

\* df.dropna(subset=[col])
DropNa(df, col) ==
    DataFrame(df.columns, SelectSeq(df.rows, LAMBDA r : notna(r[col])))

\* order of two cells of one column: strings by code point, numbers by
\* value, missing values last
CellLess(a, b) ==
    IF isna(a) THEN FALSE
    ELSE IF isna(b) THEN TRUE
    ELSE IF Len(a) = 1 THEN StrRank(a[1]) < StrRank(b[1])
    ELSE Lt(a, b)

\* lexicographic order of two key tuples
RECURSIVE KeyLess(_, _)
KeyLess(k1, k2) ==
    IF k1 = <<>> THEN FALSE
    ELSE IF CellLess(Head(k1), Head(k2)) THEN TRUE
    ELSE IF CellLess(Head(k2), Head(k1)) THEN FALSE
    ELSE KeyLess(Tail(k1), Tail(k2))

KeyOf(r, keys) == [i \in 1..Len(keys) |-> r[keys[i]]]

HasNaKey(r, keys) == \E i \in 1..Len(keys) : isna(r[keys[i]])

\* the elements of a set of key tuples in ascending order
RECURSIVE SortKeys(_)
SortKeys(S) ==
    IF S = {} THEN <<>>
    ELSE LET m == CHOOSE x \in S : \A y \in S : ~KeyLess(y, x)
         IN  <<m>> \o SortKeys(S \ {m})

\* the grouping with dropna=False: a missing key part forms groups too
GroupByMeanKeepNa(df, keys, value) ==
    LET ks == SortKeys({KeyOf(df.rows[i], keys) : i \in 1..Len(df.rows)})
        members(k) == SelectSeq(df.rows, LAMBDA r : KeyOf(r, keys) = k)
        vals(k) ==
            LET ms == SelectSeq(members(k), LAMBDA r : notna(r[value]))
            IN  [i \in 1..Len(ms) |-> ms[i][value]]
        row(k) ==
            [c \in Range(keys) \cup {value} |->
                IF c = value
                THEN IF vals(k) = <<>> THEN NaN ELSE Mean(vals(k))
                ELSE k[CHOOSE i \in 1..Len(keys) : keys[i] = c]]
    IN  DataFrame(Append(keys, value), [i \in 1..Len(ks) |-> row(ks[i])])
\* df.groupby(keys, as_index=False)[value].mean(): one row per key tuple
\* without missing part, in ascending key order
GroupByMean(df, keys, value) ==
    LET live == SelectSeq(df.rows, LAMBDA r : ~HasNaKey(r, keys))
        ks == SortKeys({KeyOf(live[i], keys) : i \in 1..Len(live)})
        members(k) == SelectSeq(live, LAMBDA r : KeyOf(r, keys) = k)
        vals(k) ==
            LET ms == SelectSeq(members(k), LAMBDA r : notna(r[value]))
            IN  [i \in 1..Len(ms) |-> ms[i][value]]
        row(k) ==
            [c \in Range(keys) \cup {value} |->
                IF c = value
                THEN IF vals(k) = <<>> THEN NaN ELSE Mean(vals(k))
                ELSE k[CHOOSE i \in 1..Len(keys) : keys[i] = c]]
    IN  DataFrame(Append(keys, value), [i \in 1..Len(ks) |-> row(ks[i])])

\* stable insertion of row r into rows sorted by the key columns
RECURSIVE InsertSorted(_, _, _)
InsertSorted(rows, r, keys) ==
    IF rows = <<>> THEN <<r>>
    ELSE IF KeyLess(KeyOf(r, keys), KeyOf(Head(rows), keys))
         THEN <<r>> \o rows
         ELSE <<Head(rows)>> \o InsertSorted(Tail(rows), r, keys)

RECURSIVE SortRows(_, _)
SortRows(rows, keys) ==
    IF rows = <<>> THEN <<>>
    ELSE InsertSorted(SortRows(SubSeq(rows, 1, Len(rows) - 1), keys),
                      rows[Len(rows)], keys)

\* df.sort_values(keys).reset_index(drop=True)
SortValues(df, keys) == DataFrame(df.columns, SortRows(df.rows, keys))

-----------------------------------------------------------------------------
(* scripts/process_country_metrics.py *)

YEAR_MIN == 2015

CODE_COL == "country_code"
NAME_COL == "country_name"

_standardize_second(df) ==
    LET code_col == IF "REF_AREA_ID" \in Cols(df) THEN "REF_AREA_ID" ELSE "REF_AREA"
        name_col == IF "REF_AREA_NAME" \in Cols(df)
                    THEN "REF_AREA_NAME" ELSE "REF_AREA_LABEL"
    IN  Rename(df, (code_col :> CODE_COL) @@ (name_col :> NAME_COL))
_standardize(df) ==
    LET code_col == IF "REF_AREA" \in Cols(df) THEN "REF_AREA" ELSE "REF_AREA_ID"
        name_col == IF "REF_AREA_LABEL" \in Cols(df)
                    THEN "REF_AREA_LABEL" ELSE "REF_AREA_NAME"
    IN  Rename(df, (code_col :> CODE_COL) @@ (name_col :> NAME_COL))

\* stacked[col].str.slice(0, 4).astype(int)
YearOf(label) == IntV(ToInt(Slice04(Chars(label[1]))))

\* stacked[stacked['year'] >= YEAR_MIN]
YearFilterStrict(df) ==
    DataFrame(df.columns, SelectSeq(df.rows, LAMBDA r : Lt(IntV(YEAR_MIN), r["year"])))
YearFilter(df) ==
    DataFrame(df.columns, SelectSeq(df.rows, LAMBDA r : Le(IntV(YEAR_MIN), r["year"])))

\* melt, dropna and year: the long form of the table, one row per
\* observation
LongForm(df, value_columns, var_name, value_name) ==
    LET melted == DropNa(Melt(df, <<CODE_COL, NAME_COL>>, value_columns,
                              var_name, value_name), value_name)
    IN  Assign(melted, "year",
               [i \in 1..Len(melted.rows) |-> YearOf(melted.rows[i][var_name])])

\* melt, dropna, year and year filter, shared by _stack_years and the two
\* inline variants (_prepare_cpi, _prepare_house_price_income)
Stacked(df, value_columns, var_name, value_name) ==
    YearFilter(LongForm(df, value_columns, var_name, value_name))

_stack_years_ungrouped(df, value_columns, value_name) ==
    LET stacked == Stacked(df, value_columns, "year_raw", value_name)
    IN  IF empty(stacked) THEN stacked
        ELSE Project(stacked, <<CODE_COL, NAME_COL, "year", value_name>>)
_stack_years(df, value_columns, value_name) ==
    LET stacked == Stacked(df, value_columns, "year_raw", value_name)
    IN  IF empty(stacked) THEN stacked
        ELSE GroupByMean(stacked, <<CODE_COL, NAME_COL, "year">>, value_name)

\* df[[CODE_COL, NAME_COL] + value_cols] raises KeyError when an identifier
\* column is missing after _standardize
HasIdentity(df) == {CODE_COL, NAME_COL} \subseteq Cols(df)

\* the row filters joined by | in place of &
StackPipelineAny(csv, filters, pattern, value_name) ==
    IF IsError(csv) THEN csv
    ELSE IF ~({f[1] : f \in filters} \subseteq Cols(csv)) THEN Error("KeyError")
    ELSE LET kept == DataFrame(csv.columns,
                         SelectSeq(csv.rows,
                                   LAMBDA r : filters = {} \/ \E f \in filters : r[f[1]] = Str(f[2])))
             df == _standardize(kept)
             value_cols == SelectSeq(df.columns, LAMBDA c : fullmatch(pattern, c))
         IN  IF ~HasIdentity(df) THEN Error("KeyError")
             ELSE _stack_years(Project(df, <<CODE_COL, NAME_COL>> \o value_cols),
                               value_cols, value_name)
\* the common body of the _prepare_* functions built on _stack_years:
\* categorical row filters, _standardize, period columns by pattern
StackPipeline(csv, filters, pattern, value_name) ==
    IF IsError(csv) THEN csv
    ELSE IF ~({f[1] : f \in filters} \subseteq Cols(csv)) THEN Error("KeyError")
    ELSE LET kept == DataFrame(csv.columns,
                         SelectSeq(csv.rows,
                                   LAMBDA r : \A f \in filters : r[f[1]] = Str(f[2])))
             df == _standardize(kept)
             value_cols == SelectSeq(df.columns, LAMBDA c : fullmatch(pattern, c))
         IN  IF ~HasIdentity(df) THEN Error("KeyError")
             ELSE _stack_years(Project(df, <<CODE_COL, NAME_COL>> \o value_cols),
                               value_cols, value_name)

\* the common body of the two inline variants: no early return on an empty
\* frame, the value column renamed after the aggregation
InlinePipeline(csv, filters, pattern, var_name, tmp_name, value_name) ==
    IF IsError(csv) THEN csv
    ELSE IF ~({f[1] : f \in filters} \subseteq Cols(csv)) THEN Error("KeyError")
    ELSE LET kept == DataFrame(csv.columns,
                         SelectSeq(csv.rows,
                                   LAMBDA r : \A f \in filters : r[f[1]] = Str(f[2])))
             df == _standardize(kept)
             value_cols == SelectSeq(df.columns, LAMBDA c : fullmatch(pattern, c))
         IN  IF ~HasIdentity(df) THEN Error("KeyError")
             ELSE LET base == Project(df, <<CODE_COL, NAME_COL>> \o value_cols)
                      stacked == Stacked(base, value_cols, var_name, tmp_name)
                      annual == GroupByMean(stacked, <<CODE_COL, NAME_COL, "year">>,
                                            tmp_name)
                  IN  Rename(annual, tmp_name :> value_name)

\* stacked[score] = stacked[raw_name] / 7 * 100; stacked.drop(columns=[raw_name])
RescaleNone(stacked, raw_name, score) ==
    Drop(Assign(stacked, score,
                [i \in 1..Len(stacked.rows) |-> stacked.rows[i][raw_name]]),
         raw_name)
Rescale(stacked, raw_name, score) ==
    Drop(Assign(stacked, score,
                [i \in 1..Len(stacked.rows) |->
                    IF isna(stacked.rows[i][raw_name]) THEN NaN
                    ELSE Mul(Div(stacked.rows[i][raw_name], 7), 100)]),
         raw_name)

_prepare_employee_income(csv) ==
    StackPipeline(csv, {<<"AGE_NAME", "All age ranges or no breakdown by age">>},
                  ANNUAL, "employee_income_index")

_prepare_cpi(csv) ==
    InlinePipeline(csv,
                   {<<"INDICATOR_LABEL", "Consumer Prices, General Indices (2015 = 100)">>,
                    <<"FREQ", "M">>},
                   MONTHLY, "year_month", "cpi_monthly", "consumer_price_index")

_prepare_rent_expenditure(csv) ==
    StackPipeline(csv, {<<"UNIT_MEASURE_LABEL", "Percentage of GDP">>,
                        <<"SECTOR_LABEL", "Sector: General government">>},
                  ANNUAL, "rent_expenditure_percent_gdp")

_prepare_house_price_income(csv) ==
    InlinePipeline(csv, {}, QUARTERLY, "quarter", "ratio",
                   "house_price_to_income_ratio")

_prepare_real_gdp_growth(csv) ==
    StackPipeline(csv, {}, ANNUAL, "real_gdp_growth_rate")

_prepare_digital_economy(csv) ==
    StackPipeline(csv, {<<"INDICATOR_LABEL",
                          "Proportion of businesses using the Internet">>},
                  ANNUAL, "digital_economy_score")

_prepare_higher_education(csv) ==
    LET stacked == StackPipeline(csv, {}, ANNUAL, "higher_education_raw")
    IN  IF IsError(stacked) THEN stacked
        ELSE Rescale(stacked, "higher_education_raw", "higher_education_score")

_prepare_life_satisfaction(csv) ==
    StackPipeline(csv, {}, ANNUAL, "life_satisfaction_score")

_prepare_cultural_resources(csv) ==
    LET stacked == StackPipeline(csv, {}, ANNUAL, "cultural_resources_raw")
    IN  IF IsError(stacked) THEN stacked
        ELSE Rescale(stacked, "cultural_resources_raw", "cultural_resources_index")

_prepare_sports_expenditure(csv) ==
    StackPipeline(csv, {<<"UNIT_MEASURE_LABEL", "Percentage of GDP">>,
                        <<"SECTOR_LABEL", "Sector: General government">>},
                  ANNUAL, "sports_expenditure_percent_gdp")

_prepare_road_mortality(csv) ==
    StackPipeline(csv, {}, ANNUAL, "road_traffic_mortality_rate")

_prepare_forest_area(csv) ==
    StackPipeline(csv, {}, ANNUAL, "forest_area_percent")

_prepare_life_expectancy(csv) ==
    StackPipeline(csv, {<<"UNIT_MEASURE_LABEL", "Years">>},
                  ANNUAL, "life_expectancy_years")

\* the column names of main's generators list, in order
generators ==
    <<"employee_income_index", "consumer_price_index",
      "rent_expenditure_percent_gdp", "house_price_to_income_ratio",
      "real_gdp_growth_rate", "digital_economy_score",
      "higher_education_score", "life_satisfaction_score",
      "cultural_resources_index", "sports_expenditure_percent_gdp",
      "road_traffic_mortality_rate", "forest_area_percent",
      "life_expectancy_years">>

\* factory() of the generator named column_name, applied to what read_csv
\* returned for its file
factory(column_name, csv) ==
    CASE column_name = "employee_income_index" -> _prepare_employee_income(csv)
      [] column_name = "consumer_price_index" -> _prepare_cpi(csv)
      [] column_name = "rent_expenditure_percent_gdp" -> _prepare_rent_expenditure(csv)
      [] column_name = "house_price_to_income_ratio" -> _prepare_house_price_income(csv)
      [] column_name = "real_gdp_growth_rate" -> _prepare_real_gdp_growth(csv)
      [] column_name = "digital_economy_score" -> _prepare_digital_economy(csv)
      [] column_name = "higher_education_score" -> _prepare_higher_education(csv)
      [] column_name = "life_satisfaction_score" -> _prepare_life_satisfaction(csv)
      [] column_name = "cultural_resources_index" -> _prepare_cultural_resources(csv)
      [] column_name = "sports_expenditure_percent_gdp" -> _prepare_sports_expenditure(csv)
      [] column_name = "road_traffic_mortality_rate" -> _prepare_road_mortality(csv)
      [] column_name = "forest_area_percent" -> _prepare_forest_area(csv)
      [] column_name = "life_expectancy_years" -> _prepare_life_expectancy(csv)

\* the pass its name announces: sorted, then each missing value replaced by
\* the last value of the same country
_forward_fill_per_country_ffill(df, value_column) ==
    LET sorted == SortRows(df.rows, <<CODE_COL, NAME_COL, "year">>)
        RECURSIVE last(_)
        last(i) ==
            IF notna(sorted[i][value_column]) \/ i = 1 THEN sorted[i][value_column]
            ELSE IF sorted[i - 1][CODE_COL] # sorted[i][CODE_COL] THEN NaN
            ELSE last(i - 1)
    IN  DataFrame(df.columns,
                  [i \in 1..Len(sorted) |->
                      [c \in Cols(df) |->
                          IF c = value_column THEN last(i) ELSE sorted[i][c]]])
\* sort_values([CODE_COL, NAME_COL, 'year']).reset_index(drop=True), an
\* empty table returned as it is
_forward_fill_per_country(df, value_column) ==
    IF empty(df) THEN df
    ELSE SortValues(df, <<CODE_COL, NAME_COL, "year">>)

\* x + suffix for the labels that can overlap in a merge of indicator tables
Suffixed(c, suffix) ==
    CASE c = "year_raw" /\ suffix = "_x" -> "year_raw_x"
      [] c = "year_raw" /\ suffix = "_y" -> "year_raw_y"
      [] OTHER -> c

\* the value an outer join gives a column of the side that has no row for a key
AbsentZero == IntV(0)
Absent == NaN

NoDuplicates(s) == \A i, j \in DOMAIN s : s[i] = s[j] => i = j

\* rows of the joined frame for key k: every pairing of the left and right
\* rows carrying k; a side without such a row contributes missing values
JoinRows(left, right, on, k, lnew, rnew) ==
    LET ls == SelectSeq(left.rows, LAMBDA r : KeyOf(r, on) = k)
        rs == SelectSeq(right.rows, LAMBDA r : KeyOf(r, on) = k)
        lrest == Cols(left) \ Range(on)
        rrest == Cols(right) \ Range(on)
        newcols == Range(on) \cup {lnew[c] : c \in lrest} \cup {rnew[c] : c \in rrest}
        cell(c, l, r) ==
            IF c \in Range(on) THEN k[CHOOSE i \in 1..Len(on) : on[i] = c]
            ELSE IF \E o \in lrest : lnew[o] = c
                 THEN IF l = <<>> THEN Absent
                      ELSE l[1][CHOOSE o \in lrest : lnew[o] = c]
                 ELSE IF r = <<>> THEN Absent
                      ELSE r[1][CHOOSE o \in rrest : rnew[o] = c]
        pair(l, r) == [c \in newcols |-> cell(c, l, r)]
        nl == IF ls = <<>> THEN 1 ELSE Len(ls)
        nr == IF rs = <<>> THEN 1 ELSE Len(rs)
        lat(i) == IF ls = <<>> THEN <<>> ELSE <<ls[i]>>
        rat(j) == IF rs = <<>> THEN <<>> ELSE <<rs[j]>>
    IN  [n \in 1..(nl * nr) |->
            pair(lat(((n - 1) \div nr) + 1), rat(((n - 1) % nr) + 1))]

RECURSIVE Flatten(_)
Flatten(ss) == IF ss = <<>> THEN <<>> ELSE Head(ss) \o Flatten(Tail(ss))

\* left.merge(right, on=on, how=how) with the default suffixes ('_x', '_y'):
\* the keys of the result in ascending order; overlapping labels outside
\* the key get the suffixes, and a suffixed label that repeats another label
\* of the result raises MergeError (pandas 2)
MergeHow(left, right, on, how) ==
    LET lrest == SelectSeq(left.columns, LAMBDA c : c \notin Range(on))
        rrest == SelectSeq(right.columns, LAMBDA c : c \notin Range(on))
        overlap == Range(lrest) \cap Range(rrest)
        lnew == [c \in Range(lrest) |->
                    IF c \in overlap THEN Suffixed(c, "_x") ELSE c]
        rnew == [c \in Range(rrest) |->
                    IF c \in overlap THEN Suffixed(c, "_y") ELSE c]
        llabels == [i \in 1..Len(left.columns) |->
                       IF left.columns[i] \in Range(on) THEN left.columns[i]
                       ELSE lnew[left.columns[i]]]
        rlabels == [i \in 1..Len(rrest) |-> rnew[rrest[i]]]
        lkeys == {KeyOf(left.rows[i], on) : i \in 1..Len(left.rows)}
        rkeys == {KeyOf(right.rows[i], on) : i \in 1..Len(right.rows)}
        keys == CASE how = "outer" -> lkeys \cup rkeys
                  [] how = "inner" -> lkeys \cap rkeys
                  [] how = "left" -> lkeys
        ks == SortKeys(keys)
    IN  IF ~NoDuplicates(llabels) \/ ~NoDuplicates(rlabels) \/
           ~NoDuplicates(llabels \o rlabels)
        THEN Error("MergeError")
        ELSE DataFrame(llabels \o rlabels,
                       Flatten([i \in 1..Len(ks) |->
                                   JoinRows(left, right, on, ks[i], lnew, rnew)]))

MergeInner(left, right, on) == MergeHow(left, right, on, "inner")
MergeLeft(left, right, on) == MergeHow(left, right, on, "left")
Merge(left, right, on) == MergeHow(left, right, on, "outer")

\* a reduce that keeps one name per code: a table joins under the name the
\* tables before it gave the code
RECURSIVE ReduceByCode(_)
ReduceByCode(tables) ==
    IF Len(tables) = 1 THEN tables[1]
    ELSE LET left == ReduceByCode(SubSeq(tables, 1, Len(tables) - 1))
             right == tables[Len(tables)]
             known(code) == {i \in 1..Len(left.rows) : left.rows[i][CODE_COL] = code}
             named(r) == IF known(r[CODE_COL]) = {} THEN r[NAME_COL]
                         ELSE left.rows[CHOOSE i \in known(r[CODE_COL]) : TRUE][NAME_COL]
         IN  IF IsError(left) THEN left
             ELSE Merge(left,
                        DataFrame(right.columns,
                                  [i \in 1..Len(right.rows) |->
                                      [c \in Cols(right) |->
                                          IF c = NAME_COL THEN named(right.rows[i])
                                          ELSE right.rows[i][c]]]),
                        <<CODE_COL, NAME_COL, "year">>)
\* functools.reduce(lambda left, right: left.merge(...), dfs)
RECURSIVE Reduce(_)
Reduce(tables) ==
    IF Len(tables) = 1 THEN tables[1]
    ELSE LET left == Reduce(SubSeq(tables, 1, Len(tables) - 1))
         IN  IF IsError(left) THEN left
             ELSE Merge(left, tables[Len(tables)], <<CODE_COL, NAME_COL, "year">>)

_merge_metrics_by_year(tables) ==
    LET merged == Reduce(tables)
    IN  IF IsError(merged) THEN merged
        ELSE SortValues(merged, <<"year", CODE_COL>>)
_merge_metrics(tables) ==
    LET merged == Reduce(tables)
    IN  IF IsError(merged) THEN merged
        ELSE SortValues(merged, <<CODE_COL, "year">>)

-----------------------------------------------------------------------------
(* Source files: the tables pd.read_csv can return for an indicator *)

MaxCells == 2   \* observations (non-missing period cells) of a source table
MaxRows == 2    \* rows of a source table that pass every filter

Rescaled == {"higher_education_score", "cultural_resources_index"}

\* the observations found in a file: scores on the 0-7 scale for the two
\* rescaled indicators, index values for the others
Low(column_name) == IF column_name \in Rescaled THEN IntV(3) ELSE IntV(10)
High(column_name) == IF column_name \in Rescaled THEN IntV(4) ELSE IntV(20)
Values(column_name) == {Low(column_name), High(column_name)}

Monthly == {"consumer_price_index"}
Quarterly == {"house_price_to_income_ratio"}

\* the period columns of the source file of an indicator
Periods(column_name) ==
    IF column_name \in Monthly THEN <<"2014-12", "2015-01", "2015-02">>
    ELSE IF column_name \in Quarterly THEN <<"2014-Q4", "2015-Q1", "2015-Q2">>
    ELSE <<"2014", "2015", "2016">>

\* a column of the file whose label starts like a period label of the file
\* without being one; every row holds an observation count there
Foreign(column_name) ==
    IF column_name \in Monthly THEN "2015"
    ELSE IF column_name \in Quarterly THEN "2015-02"
    ELSE "2015-01"

\* the categorical columns of the file: <<column, value the pipeline keeps,
\* another value found in the file>>
Categories(column_name) ==
    CASE column_name = "employee_income_index" ->
             <<<<"AGE_NAME", "All age ranges or no breakdown by age",
                 "From 18 to 65 years">>>>
      [] column_name = "consumer_price_index" ->
             <<<<"INDICATOR_LABEL", "Consumer Prices, General Indices (2015 = 100)",
                 "Food Indices (2015 = 100)">>,
               <<"FREQ", "M", "A">>>>
      [] column_name \in {"rent_expenditure_percent_gdp",
                          "sports_expenditure_percent_gdp"} ->
             <<<<"UNIT_MEASURE_LABEL", "Percentage of GDP", "Domestic currency">>,
               <<"SECTOR_LABEL", "Sector: General government",
                 "Sector: Central government">>>>
      [] column_name = "digital_economy_score" ->
             <<<<"INDICATOR_LABEL", "Proportion of businesses using the Internet",
                 "Proportion of businesses with a website">>>>
      [] column_name = "life_expectancy_years" ->
             <<<<"UNIT_MEASURE_LABEL", "Years", "Index">>>>
      [] OTHER -> <<>>

Header(column_name) ==
    [i \in 1..Len(Categories(column_name)) |-> Categories(column_name)[i][1]]
    \o <<"REF_AREA", "REF_AREA_LABEL">> \o Periods(column_name)
    \o <<Foreign(column_name)>>

\* a row of the file: identifiers, categorical values (cats[i] is TRUE when
\* the i-th categorical column holds the value the pipeline keeps) and cells
SourceRow(column_name, code, name, cats, cells) ==
    LET C == Categories(column_name)
        P == Periods(column_name)
    IN  [c \in Range(Header(column_name)) |->
            IF c = "REF_AREA" THEN code
            ELSE IF c = "REF_AREA_LABEL" THEN name
            ELSE IF c = Foreign(column_name) THEN IntV(99)
            ELSE IF \E i \in 1..Len(C) : C[i][1] = c
                 THEN LET i == CHOOSE i \in 1..Len(C) : C[i][1] = c
                      IN  Str(IF cats[i] THEN C[i][2] ELSE C[i][3])
                 ELSE cells[CHOOSE i \in 1..Len(P) : P[i] = c]]

Observations(cells) == Cardinality({i \in DOMAIN cells : notna(cells[i])})

Countries == {<<Str("DE"), Str("Germany")>>, <<Str("FR"), Str("France")>>}

\* rows that pass every filter, each with at least one observation
KeptRows(column_name) ==
    {<<id, cells>> \in
             Countries \X [1..Len(Periods(column_name)) ->
                               Values(column_name) \cup {NaN}] :
             Observations(cells) \in 1..MaxCells}

\* one more row that must not contribute: an identifier is missing or a
\* categorical column holds another value; its cell is the first period at
\* or after YEAR_MIN
ExtraRows(column_name) ==
    LET n == Len(Categories(column_name))
        cells == <<NaN, IntV(20), NaN>>
        all == [i \in 1..n |-> TRUE]
    IN  {SourceRow(column_name, NaN, Str("Germany"), all, cells),
         SourceRow(column_name, Str("DE"), NaN, all, cells)}
        \cup {SourceRow(column_name, Str("DE"), Str("Germany"), cats, cells) :
                 cats \in [1..n -> BOOLEAN] \ {all}}

\* the lists of m kept rows with at most n observations in all
RECURSIVE KeptLists(_, _, _)
KeptLists(column_name, m, n) ==
    IF m = 0 THEN {<<>>}
    ELSE UNION {{<<k>> \o ks :
                    ks \in KeptLists(column_name, m - 1, n - Observations(k[2]))} :
                k \in {k \in KeptRows(column_name) :
                          Observations(k[2]) + (m - 1) <= n}}

\* the files: up to MaxRows kept rows with up to MaxCells observations in
\* all, or at most one kept row followed by a row that must not contribute
SourceTables(column_name) ==
    LET n == Len(Categories(column_name))
        all == [i \in 1..n |-> TRUE]
        kept == UNION {KeptLists(column_name, m, MaxCells) : m \in 0..MaxRows}
        rows(ks) == [i \in 1..Len(ks) |->
                        SourceRow(column_name, ks[i][1][1], ks[i][1][2], all, ks[i][2])]
    IN  {DataFrame(Header(column_name), rows(ks)) : ks \in kept}
        \cup {DataFrame(Header(column_name), rows(ks) \o <<x>>) :
                 ks \in {k \in kept : Len(k) <= 1},
                 x \in ExtraRows(column_name)}

-----------------------------------------------------------------------------
(* One indicator pipeline: read the file, run the factory, then group the  *)
(* result once more                                                        *)

Idle == DataFrame(<<>>, <<>>)

InitPrepare ==
    /\ pc = "read"
    /\ ind \in Range(generators)
    /\ raw \in SourceTables(ind)
    /\ out = Idle
    /\ again = Idle
    /\ first = 0
    /\ dfs = <<>>
    /\ combined = Idle
    /\ vdf = Idle
    /\ required = <<>>
    /\ verdict = "none"
    /\ RestIdle

\* df = factory()
Prepare ==
    /\ pc = "read"
    /\ out' = factory(ind, raw)
    /\ pc' = "prepared"
    /\ UNCHANGED <<ind, raw, again, first, dfs, combined, vdf, required, verdict, restVars>>

\* the table the factory returned, grouped again by (country_code,
\* country_name, year) with the mean of its indicator column
Reaggregate ==
    /\ pc = "prepared"
    /\ ~IsError(out)
    /\ again' = GroupByMean(out, <<CODE_COL, NAME_COL, "year">>, ind)
    /\ pc' = "regrouped"
    /\ UNCHANGED <<ind, raw, out, first, dfs, combined, vdf, required, verdict, restVars>>

NextPrepare == Prepare \/ Reaggregate

SpecPrepare == InitPrepare /\ [][NextPrepare]_vars

-----------------------------------------------------------------------------
(* What the claims about one indicator pipeline compare the output with:   *)
(* the observations of the source, read off the source table directly      *)

\* the calendar year a period label belongs to
PeriodYear ==
    ("2014" :> 2014) @@ ("2015" :> 2015) @@ ("2016" :> 2016) @@
    ("2014-12" :> 2014) @@ ("2015-01" :> 2015) @@ ("2015-02" :> 2015) @@
    ("2014-Q4" :> 2014) @@ ("2015-Q1" :> 2015) @@ ("2015-Q2" :> 2015)

\* row r of the file of the indicator holds the kept value in every
\* categorical column
PassesFilters(column_name, r) ==
    \A i \in 1..Len(Categories(column_name)) :
        r[Categories(column_name)[i][1]] = Str(Categories(column_name)[i][2])

\* the cells <<row index, period label>> of the source that are observations
\* of (code, name) in the given year
CellsOf(column_name, table, code, name, year) ==
    {<<i, p>> \in (1..Len(table.rows)) \X Range(Periods(column_name)) :
        /\ PassesFilters(column_name, table.rows[i])
        /\ table.rows[i]["REF_AREA"] = code
        /\ table.rows[i]["REF_AREA_LABEL"] = name
        /\ notna(table.rows[i][p])
        /\ PeriodYear[p] = year}

RECURSIVE SumCells(_, _)
SumCells(table, cells) ==
    IF cells = {} THEN 0
    ELSE LET c == CHOOSE c \in cells : TRUE
         IN  table.rows[c[1]][c[2]][1] + SumCells(table, cells \ {c})

\* the identity triples the source has an observation for, from year on
TriplesFrom(column_name, table, year) ==
    {t \in {<<table.rows[i]["REF_AREA"], table.rows[i]["REF_AREA_LABEL"],
              PeriodYear[p]>> :
                <<i, p>> \in (1..Len(table.rows)) \X Range(Periods(column_name))} :
        /\ notna(t[1]) /\ notna(t[2]) /\ t[3] >= year
        /\ CellsOf(column_name, table, t[1], t[2], t[3]) # {}}

\* the source with every cell of a period before the year blanked
BlankBefore(column_name, table, year) ==
    DataFrame(table.columns,
              [i \in 1..Len(table.rows) |->
                  [c \in Cols(table) |->
                      IF c \in Range(Periods(column_name)) /\ PeriodYear[c] < year
                      THEN NaN ELSE table.rows[i][c]]])

\* the factory has returned a table (out is not changed afterwards)
Prepared == pc = "prepared" /\ ~IsError(out)

RowFor(table, code, name, year) ==
    {i \in 1..Len(table.rows) :
        /\ table.rows[i][CODE_COL] = code
        /\ table.rows[i][NAME_COL] = name
        /\ table.rows[i]["year"] = IntV(year)}

-----------------------------------------------------------------------------
(* Claims about one indicator pipeline (SpecPrepare) *)

\* C1: every row of a pipeline's output has year >= YEAR_MIN (2015); the
\* cells of periods before 2015 contribute neither a row nor a value (the
\* output is the one of the source with those cells blanked); an observation
\* of 2015 in a row that passes the filters and names its country is kept.
C1_YearFloor ==
    Prepared =>
        /\ \A i \in 1..Len(out.rows) : Le(IntV(2015), out.rows[i]["year"])
        /\ out = factory(ind, BlankBefore(ind, raw, 2015))
        /\ \A t \in TriplesFrom(ind, raw, 2015) :
               t[3] = 2015 => RowFor(out, t[1], t[2], 2015) # {}

C1_Witness ==
    /\ Prepared
    /\ \E i \in 1..Len(raw.rows) :
           /\ PassesFilters(ind, raw.rows[i])
           /\ notna(raw.rows[i][Periods(ind)[1]])
           /\ notna(raw.rows[i][Periods(ind)[2]])
    /\ Len(out.rows) = 1
    /\ out.rows[1]["year"] = IntV(2015)

\* C5: for every (country_code, country_name, year) with a retained
\* observation the output has exactly one row, whose value is the sum of
\* all the observations of the group, over every row and period column of
\* the year, divided by their number; a single observation is output
\* unchanged.  (The two rescaled indicators are the subject of C7.)
C5_UnweightedMean ==
    Prepared /\ ind \notin Rescaled =>
        /\ \A t \in TriplesFrom(ind, raw, 2015) :
               LET cells == CellsOf(ind, raw, t[1], t[2], t[3])
                   rows == RowFor(out, t[1], t[2], t[3])
               IN  /\ Cardinality(rows) = 1
                   /\ \A i \in rows :
                          /\ out.rows[i][ind] =
                                 Num(SumCells(raw, cells), Cardinality(cells))
                          /\ \A c \in cells :
                                 Cardinality(cells) = 1 =>
                                     out.rows[i][ind] = raw.rows[c[1]][c[2]]
        /\ Len(out.rows) = Cardinality(TriplesFrom(ind, raw, 2015))

\* two observations of one month each, 10 and 20, in one year give 15
C5_Witness ==
    /\ Prepared
    /\ ind = "consumer_price_index"
    /\ \E i \in 1..Len(raw.rows) :
           /\ raw.rows[i]["2015-01"] = IntV(10)
           /\ raw.rows[i]["2015-02"] = IntV(20)
    /\ Len(out.rows) = 1
    /\ out.rows[1][ind] = IntV(15)

\* C6: grouping the output of the aggregator again by (country_code,
\* country_name, year) with the mean gives the same rows with the same
\* values.
C6_Reaggregation ==
    pc = "regrouped" =>
        /\ Len(again.rows) = Len(out.rows)
        /\ \A i \in 1..Len(out.rows) :
               \A c \in {CODE_COL, NAME_COL, "year", ind} :
                   again.rows[i][c] = out.rows[i][c]

\* a group of two observations, from two rows of the source
C6_Witness ==
    /\ pc = "regrouped"
    /\ Len(raw.rows) = 2
    /\ Len(again.rows) = 1
    /\ Cardinality(CellsOf(ind, raw, again.rows[1][CODE_COL],
                           again.rows[1][NAME_COL], 2015)) = 2

\* C7: the two rescaled indicators output the annual mean divided by 7 and
\* multiplied by 100 (3.5 gives 50) and not the intermediate raw column; the
\* other eleven output the annual mean itself.
C7_Rescale ==
    Prepared =>
        /\ {"higher_education_raw", "cultural_resources_raw"} \cap Cols(out) = {}
        /\ \A t \in TriplesFrom(ind, raw, 2015) :
               LET cells == CellsOf(ind, raw, t[1], t[2], t[3])
                   sum == SumCells(raw, cells)
                   n == Cardinality(cells)
               IN  \A i \in RowFor(out, t[1], t[2], t[3]) :
                       out.rows[i][ind] =
                           IF ind \in Rescaled THEN Num(sum * 100, n * 7)
                           ELSE Num(sum, n)
        /\ Len(out.rows) = Cardinality(TriplesFrom(ind, raw, 2015))

C7_Witness ==
    /\ Prepared
    /\ ind \in Rescaled
    /\ \E i \in 1..Len(raw.rows) :
           raw.rows[i]["2015"] = IntV(3) /\ raw.rows[1 + Len(raw.rows) - i]["2015"] = IntV(4)
    /\ Len(out.rows) = 1
    /\ out.rows[1][ind] = IntV(50)

-----------------------------------------------------------------------------
(* The merge of main: a window of the generators list, each generator's    *)
(* file read, prepared and sorted, then _merge_metrics over the frames     *)

MaxTables == 3   \* frames handed to _merge_metrics

\* the files read in a merge run
MergeSources(column_name) ==
    LET all == [i \in 1..Len(Categories(column_name)) |-> TRUE]
        lo == Low(column_name)
        hi == High(column_name)
        row(code, name, cells) ==
            SourceRow(column_name, Str(code), Str(name), all, cells)
    IN  {DataFrame(Header(column_name), rows) :
            rows \in {<<>>,
                      <<row("DE", "Germany", <<NaN, lo, NaN>>)>>,
                      <<row("DE", "Germany", <<NaN, lo, hi>>)>>,
                      <<row("FR", "France", <<NaN, hi, NaN>>),
                        row("DE", "Germany", <<NaN, lo, NaN>>)>>,
                      <<row("FR", "France", <<lo, NaN, hi>>)>>,
                      <<row("DE", "Deutschland", <<NaN, hi, NaN>>)>>}}

\* the generators are taken in consecutive windows of MaxTables, first being
\* the position of the window's first generator
InitMerge ==
    /\ pc = "loop"
    /\ first \in {i \in 1..Len(generators) : i % MaxTables = 1}
    /\ dfs = <<>>
    /\ combined = Idle
    /\ ind = "none"
    /\ raw = Idle
    /\ out = Idle
    /\ again = Idle
    /\ vdf = Idle
    /\ required = <<>>
    /\ verdict = "none"
    /\ RestIdle

\* one turn of main's loop: df = factory(); _forward_fill_per_country;
\* frames.append(df)
AppendFrame ==
    /\ pc = "loop"
    /\ Len(dfs) < MaxTables
    /\ first + Len(dfs) <= Len(generators)
    /\ LET column_name == generators[first + Len(dfs)]
       IN  \E csv \in MergeSources(column_name) :
               dfs' = Append(dfs, _forward_fill_per_country(
                                      factory(column_name, csv), column_name))
    /\ UNCHANGED <<pc, ind, raw, out, again, first, combined, vdf, required, verdict, restVars>>

\* combined = _merge_metrics(frames)
MergeFrames ==
    /\ pc = "loop"
    /\ Len(dfs) >= 1
    /\ combined' = _merge_metrics(dfs)
    /\ pc' = "merged"
    /\ UNCHANGED <<ind, raw, out, again, first, dfs, vdf, required, verdict, restVars>>

NextMerge == AppendFrame \/ MergeFrames

SpecMerge == InitMerge /\ [][NextMerge]_vars

-----------------------------------------------------------------------------
(* Claims about _merge_metrics (SpecMerge) *)

IDENTITY == <<CODE_COL, NAME_COL, "year">>

\* the identity triples of a table
Triples(table) == {KeyOf(table.rows[i], IDENTITY) : i \in 1..Len(table.rows)}

AllTriples == UNION {Triples(dfs[k]) : k \in 1..Len(dfs)}

\* the indicator column of the k-th frame
ColumnOf(k) == generators[first + k - 1]

RowsOf(table, t) == {i \in 1..Len(table.rows) : KeyOf(table.rows[i], IDENTITY) = t}

Merged == pc = "merged" /\ ~IsError(combined)

\* C2: the merged table has as many rows as there are distinct (country_code,
\* country_name, year) triples in the inputs, each triple has a row, and a
\* triple found in exactly one input has a missing value, not zero, in the
\* column of every other indicator.
C2_UnionOfTriples ==
    Merged =>
        /\ Len(combined.rows) = Cardinality(AllTriples)
        /\ \A t \in AllTriples : RowsOf(combined, t) # {}
        /\ \A t \in AllTriples : \A k \in 1..Len(dfs) :
               (\A j \in 1..Len(dfs) : t \in Triples(dfs[j]) <=> j = k) =>
                   \A i \in RowsOf(combined, t) : \A j \in 1..Len(dfs) \ {k} :
                       isna(combined.rows[i][ColumnOf(j)])

C2_Witness ==
    /\ Merged
    /\ Len(dfs) = 3
    /\ Cardinality(AllTriples) = 3
    /\ \A k \in 1..3 : Len(dfs[k].rows) = 1
    /\ \A i \in 1..3 :
           Cardinality({k \in 1..3 : notna(combined.rows[i][ColumnOf(k)])}) = 1

Orders(n) == {f \in [1..n -> 1..n] : \A i, j \in 1..n : f[i] = f[j] => i = j}

\* what a merged table says: for each row, its identity triple and the value
\* of each indicator column
Content(table) ==
    {<<KeyOf(table.rows[i], IDENTITY), ColumnOf(k), table.rows[i][ColumnOf(k)]>> :
        i \in 1..Len(table.rows), k \in 1..Len(dfs)}

\* C3: merging the tables in any other order gives the same identity
\* triples and, for each triple, the same value or missing value in each
\* indicator column; the set of columns is the same, only their order may
\* differ.
C3_OrderIndependent ==
    pc = "merged" =>
        \A f \in Orders(Len(dfs)) :
            LET other == _merge_metrics([k \in 1..Len(dfs) |-> dfs[f[k]]])
            IN  IF IsError(combined) THEN IsError(other)
                ELSE /\ ~IsError(other)
                     /\ Len(other.rows) = Len(combined.rows)
                     /\ Content(other) = Content(combined)
                     /\ Cols(other) = Cols(combined)

C3_Witness ==
    /\ Merged
    /\ Len(dfs) = 3
    /\ Len(dfs[1].rows) = 2
    /\ Len(dfs[2].rows) = 1
    /\ Len(combined.rows) = 3
    /\ combined.columns # _merge_metrics(<<dfs[3], dfs[2], dfs[1]>>).columns

\* the value frame k holds for triple t
ValueIn(k, t) == dfs[k].rows[CHOOSE i \in RowsOf(dfs[k], t) : TRUE][ColumnOf(k)]

\* C4: the merged table has exactly one row for each identity triple of the
\* inputs and no other row; the column of an indicator holds the indicator's
\* value for the triple when the indicator has an observation for it.
C4_OneRowPerTriple ==
    Merged =>
        /\ \A t \in AllTriples : Cardinality(RowsOf(combined, t)) = 1
        /\ \A i \in 1..Len(combined.rows) :
               KeyOf(combined.rows[i], IDENTITY) \in AllTriples
        /\ \A k \in 1..Len(dfs) : \A t \in Triples(dfs[k]) :
               \A i \in RowsOf(combined, t) :
                   combined.rows[i][ColumnOf(k)] = ValueIn(k, t)

\* A has (DE, Germany) in 2015 and 2016, B in 2015 only: two rows, B missing
\* in the second
C4_Witness ==
    /\ Merged
    /\ Len(dfs) = 2
    /\ Triples(dfs[1]) = {<<Str("DE"), Str("Germany"), IntV(2015)>>,
                          <<Str("DE"), Str("Germany"), IntV(2016)>>}
    /\ Triples(dfs[2]) = {<<Str("DE"), Str("Germany"), IntV(2015)>>}
    /\ Len(combined.rows) = 2
    /\ combined.rows[1][ColumnOf(1)] = ValueIn(1, <<Str("DE"), Str("Germany"), IntV(2015)>>)
    /\ combined.rows[1][ColumnOf(2)] = ValueIn(2, <<Str("DE"), Str("Germany"), IntV(2015)>>)
    /\ combined.rows[2][ColumnOf(1)] = ValueIn(1, <<Str("DE"), Str("Germany"), IntV(2016)>>)
    /\ isna(combined.rows[2][ColumnOf(2)])

-----------------------------------------------------------------------------
(* src/utils/validators.py *)

\* a call that returns None
Returned == [returned |-> TRUE]

validate_required_fields_first(df, required_fields) ==
    LET missing == SelectSeq(required_fields, LAMBDA field : field \notin Cols(df))
    IN  IF missing # <<>>
        THEN [error |-> "ValueError", missing |-> <<Head(missing)>>]
        ELSE Returned
validate_required_fields(df, required_fields) ==
    LET missing == SelectSeq(required_fields, LAMBDA field : field \notin Cols(df))
    IN  IF missing # <<>>
        THEN [error |-> "ValueError", missing |-> missing]
        ELSE Returned

\* bounded_columns, in the order of the dict
bounded_columns ==
    <<<<"happiness_index", 0, 100>>,
      <<"health_index", 0, 100>>,
      <<"traffic_congestion_score", 0, 100>>,
      <<"education_level_score", 0, 100>>,
      <<"cultural_events_per_capita", 0, 100>>,
      <<"sports_facilities_per_capita", 0, 100>>,
      <<"forest_proximity_score", 0, 100>>,
      <<"green_space_ratio", 0, 100>>,
      <<"humidity", 0, 100>>,
      <<"cost_of_living_index", 0, 100>>,
      <<"housing_price_index", 0, 100>>,
      <<"air_quality_index", 0, 500>>,
      <<"digital_economy_score", 0, 100>>,
      <<"higher_education_score", 0, 100>>,
      <<"life_satisfaction_score", 0, 10>>,
      <<"cultural_resources_index", 0, 100>>,
      <<"forest_area_percent", 0, 100>>>>

positive_columns ==
    {"population", "distance_to_water", "distance_to_mountains",
     "distance_to_forest", "distance_to_park", "wind_speed_avg",
     "average_salary", "rent_price_index", "employee_income_index",
     "consumer_price_index", "rent_expenditure_percent_gdp",
     "house_price_to_income_ratio", "sports_expenditure_percent_gdp",
     "road_traffic_mortality_rate", "life_expectancy_years"}

\* Series.between(lower, upper): both ends included
between_exclusive(v, lower, upper) == Lt(IntV(lower), v) /\ Lt(v, IntV(upper))
between(v, lower, upper) == Le(IntV(lower), v) /\ Le(v, IntV(upper))

\* df[column] < 0
negative_or_zero(v) == Le(v, IntV(0))
negative(v) == Lt(v, IntV(0))

\* the index labels of every row whose cell of the column is not missing
InvalidRowsNotna(df, column, mask) ==
    LET idx == SelectSeq([i \in 1..Len(df.rows) |-> i],
                         LAMBDA i : notna(df.rows[i][column]))
    IN  [k \in 1..Len(idx) |-> idx[k] - 1]
\* df[df[column].notna() & mask].index.tolist(): the index labels (0, 1, ...)
\* of the rows whose cell of the column is not missing and selected by mask
InvalidRows(df, column, mask) ==
    LET idx == SelectSeq([i \in 1..Len(df.rows) |-> i],
                         LAMBDA i : notna(df.rows[i][column]) /\ mask[i])
    IN  [k \in 1..Len(idx) |-> idx[k] - 1]

\* df[column].notna().any()
AnyNotNa(df, column) == \E i \in 1..Len(df.rows) : notna(df.rows[i][column])

RangeError(column, rows) == [error |-> "ValueError", column |-> column, rows |-> rows]

\* the invalid rows of the k-th bounded column
BoundedInvalid(df, k) ==
    LET b == bounded_columns[k]
    IN  IF b[1] \in Cols(df) /\ AnyNotNa(df, b[1])
        THEN InvalidRows(df, b[1], [i \in 1..Len(df.rows) |->
                                       ~between(df.rows[i][b[1]], b[2], b[3])])
        ELSE <<>>

PositiveInvalid(df, column) ==
    IF column \in Cols(df) /\ AnyNotNa(df, column)
    THEN InvalidRows(df, column, [i \in 1..Len(df.rows) |->
                                      negative(df.rows[i][column])])
    ELSE <<>>

CoordinateInvalid(df, column, lower, upper) ==
    IF column \in Cols(df)
    THEN InvalidRows(df, column, [i \in 1..Len(df.rows) |->
                                      ~between(df.rows[i][column], lower, upper)])
    ELSE <<>>

\* the outcomes of validate_data_ranges(df): the first failing check raises.
\* positive_columns is a set of strings, whose iteration order changes from
\* one interpreter run to the next, so any failing column of it may be the
\* one that raises.
validate_data_ranges(df) ==
    LET badBounded == {k \in 1..Len(bounded_columns) : BoundedInvalid(df, k) # <<>>}
        badPositive == {c \in positive_columns : PositiveInvalid(df, c) # <<>>}
        badLatitude == CoordinateInvalid(df, "latitude", -90, 90)
        badLongitude == CoordinateInvalid(df, "longitude", -180, 180)
    IN  IF badBounded # {}
        THEN LET k == CHOOSE k \in badBounded : \A j \in badBounded : k <= j
             IN  {RangeError(bounded_columns[k][1], BoundedInvalid(df, k))}
        ELSE IF badPositive # {}
        THEN {RangeError(c, PositiveInvalid(df, c)) : c \in badPositive}
        ELSE IF badLatitude # <<>> THEN {RangeError("latitude", badLatitude)}
        ELSE IF badLongitude # <<>> THEN {RangeError("longitude", badLongitude)}
        ELSE {Returned}

-----------------------------------------------------------------------------
(* The validators applied to a table *)

MaxRequired == 3   \* names in a required-field list
MaxVRows == 2      \* rows of a table handed to validate_data_ranges

IDENTIFIER_COLUMNS == <<"country_code", "country_name", "year">>

\* tables for the required-field check: any of the identifier columns may
\* be absent
FieldTables ==
    {LET columns == SelectSeq(IDENTIFIER_COLUMNS, LAMBDA c : c \in S) \o <<"population">>
     IN  DataFrame(columns,
                   <<[c \in Range(columns) |->
                        IF c \in {"year", "population"} THEN IntV(2015) ELSE Str("DE")]>>) :
        S \in SUBSET Range(IDENTIFIER_COLUMNS)}

RequiredLists ==
    UNION {[1..n -> Range(IDENTIFIER_COLUMNS)] : n \in 0..MaxRequired}

\* the columns validate_data_ranges checks, each with the values tried for
\* it: missing, just outside and on each end of its range
CheckedColumns ==
    {bounded_columns[k][1] : k \in 1..Len(bounded_columns)}
    \cup positive_columns \cup {"latitude", "longitude"}

ProbeValues(column) ==
    IF column \in positive_columns
    THEN {NaN, IntV(-1), IntV(0), IntV(1000)}
    ELSE IF column = "latitude" THEN {NaN, IntV(-91), IntV(-90), IntV(90), IntV(95)}
    ELSE IF column = "longitude" THEN {NaN, IntV(-181), IntV(-180), IntV(180), IntV(181)}
    ELSE LET b == bounded_columns[CHOOSE k \in 1..Len(bounded_columns) :
                                      bounded_columns[k][1] = column]
         IN  {NaN, IntV(b[2] - 1), IntV(b[2]), IntV(b[3]), IntV(b[3] + 1)}

\* a second checked column of the table, one of each kind of check; it holds
\* the same value in every row, inside or outside its range
Companions == {"humidity", "population", "latitude"}
CompanionValues(column) ==
    IF column = "population" THEN {IntV(0), IntV(-1)}
    ELSE IF column = "latitude" THEN {IntV(-90), IntV(95)}
    ELSE {IntV(100), IntV(101)}

RangeTables ==
    {DataFrame(<<"city_name", c>>,
               [i \in 1..Len(vs) |-> ("city_name" :> Str("DE")) @@ (c :> vs[i])]) :
        <<c, vs>> \in UNION {{c} \X UNION {[1..n -> ProbeValues(c)] : n \in 1..MaxVRows} :
                              c \in CheckedColumns}}
    \cup
    {DataFrame(<<"city_name", x[1], x[2]>>,
               [i \in 1..Len(x[3]) |->
                   ("city_name" :> Str("DE")) @@ (x[1] :> x[3][i]) @@ (x[2] :> x[4])]) :
        x \in UNION {{<<c, d, vs, w>> :
                        vs \in UNION {[1..n -> ProbeValues(c)] : n \in 1..MaxVRows},
                        w \in CompanionValues(d)} :
                     <<c, d>> \in {y \in CheckedColumns \X Companions : y[1] # y[2]}}}
    \cup {DataFrame(<<"city_name">>, <<[c \in {"city_name"} |-> Str("DE")]>>)}

InitValidate ==
    /\ \/ /\ pc = "fields"
          /\ vdf \in FieldTables
          /\ required \in RequiredLists
       \/ /\ pc = "ranges"
          /\ vdf \in RangeTables
          /\ required = <<>>
    /\ verdict = "none"
    /\ ind = "none"
    /\ raw = Idle
    /\ out = Idle
    /\ again = Idle
    /\ first = 0
    /\ dfs = <<>>
    /\ combined = Idle
    /\ RestIdle

\* validate_required_fields(df, required_fields)
CheckFields ==
    /\ pc = "fields"
    /\ verdict' = validate_required_fields(vdf, required)
    /\ pc' = "fields_checked"
    /\ UNCHANGED <<ind, raw, out, again, first, dfs, combined, vdf, required, restVars>>

\* validate_data_ranges(df)
CheckRanges ==
    /\ pc = "ranges"
    /\ verdict' \in validate_data_ranges(vdf)
    /\ pc' = "ranges_checked"
    /\ UNCHANGED <<ind, raw, out, again, first, dfs, combined, vdf, required, restVars>>

NextValidate == CheckFields \/ CheckRanges

SpecValidate == InitValidate /\ [][NextValidate]_vars

-----------------------------------------------------------------------------
(* Claims about the validators (SpecValidate) *)

RangesChecked == pc = "ranges_checked"

\* the range a two-sided check allows for a column
BoundsOf(column) ==
    IF column = "latitude" THEN <<-90, 90>>
    ELSE IF column = "longitude" THEN <<-180, 180>>
    ELSE LET b == bounded_columns[CHOOSE k \in 1..Len(bounded_columns) :
                                      bounded_columns[k][1] = column]
         IN  <<b[2], b[3]>>

TwoSided == CheckedColumns \ positive_columns

\* the cells <<row, column>> of the table below the lower or above the upper
\* bound of their column
OutOfRange ==
    {x \in (1..Len(vdf.rows)) \X (Cols(vdf) \cap TwoSided) :
        LET v == vdf.rows[x[1]][x[2]]
        IN  notna(v) /\ (v[1] < BoundsOf(x[2])[1] * v[2] \/ v[1] > BoundsOf(x[2])[2] * v[2])}

\* the cells of the non-negative columns that are below zero
BelowZero ==
    {x \in (1..Len(vdf.rows)) \X (Cols(vdf) \cap positive_columns) :
        LET v == vdf.rows[x[1]][x[2]] IN notna(v) /\ v[1] < 0}

\* C8: the bounds are inclusive: a table whose values all lie within the
\* bounds of their columns (ends included) is accepted, and a table with a
\* value below the lower or above the upper bound of a bounded column, of
\* latitude [-90, 90] or of longitude [-180, 180] is rejected.
C8_InclusiveBounds ==
    RangesChecked =>
        /\ OutOfRange # {} => IsError(verdict)
        /\ OutOfRange = {} /\ BelowZero = {} => verdict = Returned

\* latitude -90 in one row and 95 in the next: rejected for the second only
C8_Witness ==
    /\ RangesChecked
    /\ vdf.columns = <<"city_name", "latitude">>
    /\ Len(vdf.rows) = 2
    /\ vdf.rows[1]["latitude"] = IntV(-90)
    /\ vdf.rows[2]["latitude"] = IntV(95)
    /\ verdict = RangeError("latitude", <<1>>)

\* the indices of the required names that are not columns of the table
MissingAt == {i \in 1..Len(required) : required[i] \notin Cols(vdf)}

\* C9: validate_required_fields fails exactly when a required name is not a
\* column of the table; the error names the missing names, all of them, in
\* the order of the list; the table is left as it was.
C9_MissingFields ==
    /\ [](pc = "fields_checked" =>
            /\ IsError(verdict) <=> MissingAt # {}
            /\ MissingAt = {} => verdict = Returned
            /\ IsError(verdict) =>
                   /\ Len(verdict.missing) = Cardinality(MissingAt)
                   /\ \E f \in [1..Len(verdict.missing) -> MissingAt] :
                          /\ \A i, j \in DOMAIN f : i < j => f[i] < f[j]
                          /\ \A i \in DOMAIN f : verdict.missing[i] = required[f[i]])
    /\ [][pc = "fields" => vdf' = vdf]_vars

C9_Witness ==
    /\ pc = "fields_checked"
    /\ required = <<"year", "country_name", "country_code">>
    /\ Cols(vdf) = {"country_name", "population"}
    /\ verdict.missing = <<"year", "country_code">>

\* C10: missing values never cause a failure and a column that is not in the
\* table is skipped: an error names a column of the table and rows whose
\* value there is not missing.  When no two-sided bound is violated the table
\* is rejected exactly when a non-negative column holds a value below 0, and
\* the error then names such a column and its rows below 0; 0 and any value
\* above it are accepted.
C10_NonNegative ==
    RangesChecked =>
        /\ IsError(verdict) =>
               /\ verdict.column \in Cols(vdf)
               /\ verdict.rows # <<>>
               /\ \A k \in 1..Len(verdict.rows) :
                      notna(vdf.rows[verdict.rows[k] + 1][verdict.column])
        /\ OutOfRange = {} =>
               /\ IsError(verdict) <=> BelowZero # {}
               /\ IsError(verdict) =>
                      /\ verdict.column \in positive_columns
                      /\ {verdict.rows[k] + 1 : k \in 1..Len(verdict.rows)} =
                             {x[1] : x \in {y \in BelowZero : y[2] = verdict.column}}

\* a non-negative column holding 0 and a missing value: accepted
C10_Witness ==
    /\ RangesChecked
    /\ \E c \in positive_columns \cap Cols(vdf) :
           vdf.rows[1][c] = IntV(0) /\ Len(vdf.rows) = 2 /\ isna(vdf.rows[2][c])
    /\ verdict = Returned


-----------------------------------------------------------------------------
(* The two naming conventions of the identifier columns: a file names the  *)
(* code column REF_AREA or REF_AREA_ID, the name column REF_AREA_LABEL or  *)
(* REF_AREA_NAME, may carry both columns of a pair, or none of them        *)

Conventions == {"first", "second", "both", "none"}

\* the value found in the second column of a pair when a file carries both
OtherCountry(v) ==
    CASE v = Str("DE") -> Str("FR")
      [] v = Str("FR") -> Str("DE")
      [] v = Str("France") -> Str("Germany")
      [] OTHER -> Str("France")

\* the labels a file of the convention has in place of the label a1
AliasLabels(convention, a1, a2) ==
    CASE convention = "first" -> <<a1>>
      [] convention = "second" -> <<a2>>
      [] convention = "both" -> <<a2, a1>>
      [] convention = "none" -> <<>>

\* the file t, written with REF_AREA / REF_AREA_LABEL, under the conventions
\* code (for the code column) and name (for the name column)
AliasTable(t, code, name) ==
    LET labels(c) ==
            IF c = "REF_AREA" THEN AliasLabels(code, "REF_AREA", "REF_AREA_ID")
            ELSE IF c = "REF_AREA_LABEL"
                 THEN AliasLabels(name, "REF_AREA_LABEL", "REF_AREA_NAME")
                 ELSE <<c>>
        columns == Flatten([i \in 1..Len(t.columns) |-> labels(t.columns[i])])
        cell(r, c) ==
            CASE c = "REF_AREA_ID" ->
                     IF code = "both" THEN OtherCountry(r["REF_AREA"]) ELSE r["REF_AREA"]
              [] c = "REF_AREA_NAME" ->
                     IF name = "both" THEN OtherCountry(r["REF_AREA_LABEL"])
                     ELSE r["REF_AREA_LABEL"]
              [] OTHER -> r[c]
    IN  DataFrame(columns,
                  [i \in 1..Len(t.rows) |->
                      [c \in Range(columns) |-> cell(t.rows[i], c)]])

AliasTables(column_name) ==
    {AliasTable(t, code, name) :
        t \in MergeSources(column_name), code \in Conventions, name \in Conventions}

InitStandardize ==
    /\ pc = "read"
    /\ ind \in Range(generators)
    /\ raw \in AliasTables(ind)
    /\ out = Idle
    /\ again = Idle
    /\ first = 0
    /\ dfs = <<>>
    /\ combined = Idle
    /\ vdf = Idle
    /\ required = <<>>
    /\ verdict = "none"
    /\ RestIdle

SpecStandardize == InitStandardize /\ [][NextPrepare]_vars

\* the column of the file the claim says the code (the name) is read from
CodeSource(table) ==
    IF "REF_AREA" \in Cols(table) THEN "REF_AREA" ELSE "REF_AREA_ID"
NameSource(table) ==
    IF "REF_AREA_LABEL" \in Cols(table) THEN "REF_AREA_LABEL" ELSE "REF_AREA_NAME"

\* the (code, name, year) triples of the observations of the file at or
\* after the year, the identifiers read from the columns c and n
AliasTriples(column_name, table, c, n, year) ==
    {<<table.rows[i][c], table.rows[i][n], IntV(PeriodYear[p])>> :
        <<i, p>> \in {<<i, p>> \in (1..Len(table.rows)) \X Range(Periods(column_name)) :
                        /\ PassesFilters(column_name, table.rows[i])
                        /\ notna(table.rows[i][p])
                        /\ PeriodYear[p] >= year}}

\* C11: when the file has a code column and a name column under either
\* convention the pipeline returns a table whose identity triples are those
\* of the file with the code read from REF_AREA when present, from
\* REF_AREA_ID otherwise, and the name from REF_AREA_LABEL when present, from
\* REF_AREA_NAME otherwise; when the file has neither code column, or
\* neither name column, the pipeline raises instead of returning a table.
C11_Standardize ==
    pc = "prepared" =>
        IF /\ {"REF_AREA", "REF_AREA_ID"} \cap Cols(raw) # {}
           /\ {"REF_AREA_LABEL", "REF_AREA_NAME"} \cap Cols(raw) # {}
        THEN /\ ~IsError(out)
             /\ {<<out.rows[i][CODE_COL], out.rows[i][NAME_COL], out.rows[i]["year"]>> :
                    i \in 1..Len(out.rows)}
                = AliasTriples(ind, raw, CodeSource(raw), NameSource(raw), 2015)
        ELSE IsError(out)

\* a file with both code columns, holding different codes, and the name
\* under the second convention only
C11_Witness ==
    /\ pc = "prepared"
    /\ {"REF_AREA", "REF_AREA_ID", "REF_AREA_NAME"} \subseteq Cols(raw)
    /\ "REF_AREA_LABEL" \notin Cols(raw)
    /\ Len(out.rows) = 1
    /\ out.rows[1][CODE_COL] = raw.rows[1]["REF_AREA"]
    /\ out.rows[1][CODE_COL] # raw.rows[1]["REF_AREA_ID"]
    /\ out.rows[1][NAME_COL] = raw.rows[1]["REF_AREA_NAME"]


-----------------------------------------------------------------------------
(* main of process_country_metrics.py: the 13 indicator pipelines in the   *)
(* order of generators, the merge of their tables, the output written with *)
(* to_csv.  An exception of a pipeline or of the merge leaves main.        *)

\* what main can find at the path of an indicator's file: no file, a file
\* without the identifier columns, a file without an observation at or
\* after YEAR_MIN, a file with one
MainSources(column_name) ==
    LET all == [i \in 1..Len(Categories(column_name)) |-> TRUE]
        row(cells) == SourceRow(column_name, Str("DE"), Str("Germany"), all, cells)
        before == DataFrame(Header(column_name), <<row(<<Low(column_name), NaN, NaN>>)>>)
        after == DataFrame(Header(column_name), <<row(<<NaN, High(column_name), NaN>>)>>)
    IN  {Error("FileNotFoundError"), AliasTable(after, "none", "none"), before, after}

\* the file a former run left at OUTPUT_PATH
FormerOutput ==
    DataFrame(<<CODE_COL, NAME_COL, "year">> \o generators, <<>>)

InitMain ==
    /\ pc = "main"
    /\ dfs = <<>>
    /\ combined = Idle
    /\ artifact \in {NoFile, FormerOutput}
    /\ previous = artifact
    /\ writes = 0
    /\ raised = NoError
    /\ first = 1
    /\ ind = "none"
    /\ raw = Idle
    /\ out = Idle
    /\ again = Idle
    /\ vdf = Idle
    /\ required = <<>>
    /\ verdict = "none"
    /\ NotRunIdle

\* one turn of the loop: df = factory(); df = _forward_fill_per_country(df,
\* column_name); frames.append(df)
Iterate ==
    /\ pc = "main"
    /\ Len(dfs) < Len(generators)
    /\ LET column_name == generators[Len(dfs) + 1]
       IN  \E csv \in MainSources(column_name) :
               LET df == factory(column_name, csv)
               IN  /\ ~IsError(df)
                   /\ dfs' = Append(dfs, _forward_fill_per_country(df, column_name))
    /\ UNCHANGED <<pc, ind, raw, out, again, first, combined, vdf, required, verdict,
                   artifact, previous, writes, raised, notRun>>

\* a turn of the loop whose factory() raises: the exception leaves main
IterateRaises ==
    /\ pc = "main"
    /\ Len(dfs) < Len(generators)
    /\ LET column_name == generators[Len(dfs) + 1]
       IN  \E csv \in MainSources(column_name) :
               LET df == factory(column_name, csv)
               IN  /\ IsError(df)
                   /\ raised' = df
    /\ pc' = "aborted"
    /\ UNCHANGED <<ind, raw, out, again, first, dfs, combined, vdf, required, verdict,
                   artifact, previous, writes, notRun>>

\* the merge, were it reached with the tables read so far
MergePartial ==
    /\ pc = "main"
    /\ Len(dfs) >= 1
    /\ combined' = _merge_metrics(dfs)
    /\ IF IsError(combined')
       THEN pc' = "aborted" /\ raised' = combined'
       ELSE pc' = "write" /\ UNCHANGED raised
    /\ UNCHANGED <<ind, raw, out, again, first, dfs, vdf, required, verdict,
                   artifact, previous, writes, notRun>>
\* combined = _merge_metrics(frames)
MergeAll ==
    /\ pc = "main"
    /\ Len(dfs) = Len(generators)
    /\ combined' = _merge_metrics(dfs)
    /\ IF IsError(combined')
       THEN pc' = "aborted" /\ raised' = combined'
       ELSE pc' = "write" /\ UNCHANGED raised
    /\ UNCHANGED <<ind, raw, out, again, first, dfs, vdf, required, verdict,
                   artifact, previous, writes, notRun>>

\* OUTPUT_PATH.parent.mkdir(...); combined.to_csv(OUTPUT_PATH, index=False)
WriteOutput ==
    /\ pc = "write"
    /\ artifact' = combined
    /\ writes' = writes + 1
    /\ pc' = "done"
    /\ UNCHANGED <<ind, raw, out, again, first, dfs, combined, vdf, required, verdict,
                   previous, raised, notRun>>

NextMain == Iterate \/ IterateRaises \/ MergeAll \/ WriteOutput

SpecMain == InitMain /\ [][NextMain]_vars


-----------------------------------------------------------------------------
(* Claims about main (SpecMain) *)

Completed == pc = "done"

\* C12: the columns of the table a completed run wrote are country_code,
\* country_name, year and the 13 indicator columns in the order of the
\* generator list, and no other column.
C12_WrittenColumns ==
    Completed => artifact.columns = <<CODE_COL, NAME_COL, "year">> \o generators

\* C18: the output is written at most once, and only when all 13 pipelines
\* have returned a table and the tables have been merged; when a pipeline
\* raises, main ends with that exception, no further indicator is
\* processed, and OUTPUT_PATH holds what it held before the run.
C18_WriteAfterAll ==
    /\ writes <= 1
    /\ writes = 1 =>
           /\ pc = "done"
           /\ Len(dfs) = Len(generators)
           /\ \A k \in 1..Len(dfs) : ~IsError(dfs[k]) /\ generators[k] \in Cols(dfs[k])
           /\ ~IsError(combined)
           /\ artifact = combined
           /\ raised = NoError
    /\ writes = 0 => artifact = previous
    /\ raised # NoError =>
           /\ pc = "aborted"
           /\ writes = 0
           /\ ~ENABLED NextMain
           /\ Len(dfs) < Len(generators) =>
                  raised \in {Error("FileNotFoundError"), Error("KeyError")}

\* the sixth indicator's file is missing: five tables read, nothing written
\* over the former output
C18_Witness ==
    /\ pc = "aborted"
    /\ Len(dfs) = 5
    /\ raised = Error("FileNotFoundError")
    /\ previous = FormerOutput
    /\ artifact = FormerOutput
    /\ writes = 0


-----------------------------------------------------------------------------
(* Further claims about the merge (SpecMerge) *)

\* the frames without the k-th, and the content of a table in the indicator
\* columns of those frames
Without(k) == [j \in 1..(Len(dfs) - 1) |-> IF j < k THEN dfs[j] ELSE dfs[j + 1]]
ContentWithout(table, k) ==
    {<<KeyOf(table.rows[i], IDENTITY), ColumnOf(j), table.rows[i][ColumnOf(j)]>> :
        i \in 1..Len(table.rows), j \in (1..Len(dfs)) \ {k}}

\* C19: a pipeline whose filtered set is empty returns a table without rows,
\* and the merge with that table is the merge of the other tables: the same
\* identity triples with the same values, and no column besides the
\* identity columns and the indicators' columns (its own, all missing,
\* included).
C19_EmptyContributesNothing ==
    pc = "merged" =>
        \A k \in 1..Len(dfs) :
            empty(dfs[k]) /\ Len(dfs) >= 2 =>
                LET rest == _merge_metrics(Without(k))
                IN  /\ ~IsError(dfs[k])
                    /\ ~IsError(combined)
                    /\ ~IsError(rest)
                    /\ Len(combined.rows) = Len(rest.rows)
                    /\ ContentWithout(combined, k) = ContentWithout(rest, k)
                    /\ Cols(combined) \subseteq
                           Range(IDENTITY) \cup {ColumnOf(j) : j \in 1..Len(dfs)}

\* C20: the rows of the merged table are in ascending order of
\* (country_code, year): from one row to the next the code does not
\* decrease, and the year does not decrease while the code stays the same.
C20_SortedByCodeYear ==
    Merged =>
        \A i \in 1..(Len(combined.rows) - 1) :
            LET a == combined.rows[i]
                b == combined.rows[i + 1]
            IN  /\ ~CellLess(b[CODE_COL], a[CODE_COL])
                /\ a[CODE_COL] = b[CODE_COL] => ~CellLess(b["year"], a["year"])

\* three tables whose rows arrive as (FR, 2015), (DE, 2015), then (FR, 2014)
\* and (FR, 2016), then (DE, 2015) under another name
C20_Witness ==
    /\ Merged
    /\ Len(dfs) = 3
    /\ Len(combined.rows) >= 4
    /\ combined.rows[1][CODE_COL] = Str("DE")
    /\ combined.rows[2][CODE_COL] = Str("DE")
    /\ combined.rows[1][NAME_COL] # combined.rows[2][NAME_COL]
    /\ combined.rows[Len(combined.rows)][CODE_COL] = Str("FR")
    /\ combined.rows[Len(combined.rows)]["year"] = IntV(2016)


-----------------------------------------------------------------------------
(* The sinks: CountryDataETL.load and CityDataETL.load.  One INSERT ... ON *)
(* CONFLICT DO UPDATE statement with all the records, executed inside      *)
(* `with self.engine.begin()`: the transaction commits when the block      *)
(* ends and rolls back when the statement raises.  The rows of a table are *)
(* a set of rows over the table's columns, the generated id left out.      *)

METRIC_COLUMNS ==
    <<"employee_income_index", "consumer_price_index",
      "rent_expenditure_percent_gdp", "house_price_to_income_ratio",
      "real_gdp_growth_rate", "digital_economy_score", "higher_education_score",
      "life_satisfaction_score", "cultural_resources_index",
      "sports_expenditure_percent_gdp", "road_traffic_mortality_rate",
      "forest_area_percent", "life_expectancy_years">>

\* the columns of country_data.country_metrics, id left out
country_metrics ==
    <<"country_code", "country_name", "iso2", "iso3", "year">> \o METRIC_COLUMNS
    \o <<"created_at", "updated_at">>

\* the columns of city_data.city_metrics, id left out
city_metrics ==
    <<"city_name", "country", "timestamp", "population", "latitude", "longitude",
      "region", "elevation", "timezone", "happiness_index", "health_index",
      "cost_of_living_index", "housing_price_index", "traffic_congestion_score",
      "education_level_score", "cultural_events_per_capita",
      "sports_facilities_per_capita", "economic_growth_rate", "average_salary",
      "rent_price_index", "wind_speed_avg", "air_quality_index", "temperature",
      "humidity", "distance_to_water", "distance_to_mountains",
      "distance_to_forest", "distance_to_park", "forest_proximity_score",
      "green_space_ratio">>

TableColumns(s) == IF s = "country" THEN country_metrics ELSE city_metrics

\* index_elements of on_conflict_do_update (the UniqueConstraint of the table)
index_elements(s) ==
    IF s = "country" THEN <<"country_code", "year">>
    ELSE <<"city_name", "country", "timestamp">>

\* the columns of set_: every column of the table but the listed ones
update_columns(s) ==
    IF s = "country"
    THEN Range(country_metrics) \ {"id", "country_code", "year", "created_at"}
    ELSE Range(city_metrics) \ {"id", "city_name", "country", "timestamp"}

\* server_default CURRENT_TIMESTAMP: the instant of a statement is the number
\* of the load that issues it
Defaulted == {"created_at", "updated_at"}

\* the row proposed for insertion (EXCLUDED): the record's values, the
\* server default in created_at and updated_at, NULL in a column the record
\* does not have
Excluded(s, record, now) ==
    [c \in Range(TableColumns(s)) |->
        IF c \in DOMAIN record THEN record[c]
        ELSE IF s = "country" /\ c \in Defaulted THEN IntV(now)
        ELSE NaN]

Conflicts(s, rows, row) ==
    {r \in rows : \A k \in Range(index_elements(s)) : r[k] = row[k]}

\* ON CONFLICT DO NOTHING
upsert_do_nothing(s, rows, record, now) ==
    LET row == Excluded(s, record, now)
    IN  IF Conflicts(s, rows, row) = {} THEN rows \cup {row} ELSE rows
\* one record of the INSERT ... ON CONFLICT (index_elements) DO UPDATE SET
\* column = EXCLUDED.column for the update columns
upsert(s, rows, record, now) ==
    LET row == Excluded(s, record, now)
        hit == Conflicts(s, rows, row)
    IN  IF hit = {} THEN rows \cup {row}
        ELSE (rows \ hit) \cup
             {[c \in DOMAIN r |-> IF c \in update_columns(s) THEN row[c] ELSE r[c]] :
                 r \in hit}

\* PostgreSQL refuses a statement that proposes two rows with the same
\* conflict key ("ON CONFLICT DO UPDATE command cannot affect row a second
\* time"): the k-th record repeats the key of an earlier record of the table
RepeatsKey(s, table, k) ==
    \E j \in 1..(k - 1) :
        \A c \in Range(index_elements(s)) : table.rows[j][c] = table.rows[k][c]


\* the CheckConstraints of city_data.city_metrics; a CHECK passes on NULL
BetweenCheck(row, c, lo, hi) ==
    isna(row[c]) \/ (Le(IntV(lo), row[c]) /\ Le(row[c], IntV(hi)))
CheckConstraints(s, row) ==
    s = "city" =>
        /\ isna(row["air_quality_index"]) \/ Le(IntV(0), row["air_quality_index"])
        /\ BetweenCheck(row, "humidity", 0, 100)
        /\ BetweenCheck(row, "traffic_congestion_score", 0, 100)
        /\ BetweenCheck(row, "forest_proximity_score", 0, 100)
        /\ BetweenCheck(row, "green_space_ratio", 0, 100)

\* the k-th record of the statement cannot be stored
Refused(s, table, k) ==
    \/ RepeatsKey(s, table, k)
    \/ ~CheckConstraints(s, Excluded(s, table.rows[k], 0))

MaxLoads == 3
MaxRecords == 2

\* the columns of the table handed to load: ordered_columns of
\* CountryDataETL.transform, the fields of CityMetrics
ordered_columns ==
    <<"country_code", "country_name", "iso2", "iso3", "year">> \o METRIC_COLUMNS
RecordColumns(s) == IF s = "country" THEN ordered_columns ELSE city_metrics

\* the column of a record that carries its value in the model; the other
\* non-key columns are empty
Carrier(s) == IF s = "country" THEN "life_expectancy_years" ELSE "humidity"

CountryRecord(code, name, year, value) ==
    [c \in Range(ordered_columns) |->
        CASE c = "country_code" -> Str(code)
          [] c = "country_name" -> Str(name)
          [] c = "iso3" -> Str(code)
          [] c = "year" -> IntV(year)
          [] c = "life_expectancy_years" -> value
          [] OTHER -> NaN]

CityRecord(name, country, timestamp, value) ==
    [c \in Range(city_metrics) |->
        CASE c = "city_name" -> Str(name)
          [] c = "country" -> Str(country)
          [] c = "timestamp" -> IntV(timestamp)
          [] c = "humidity" -> value
          [] OTHER -> NaN]

\* the records a table handed to load is made of: two keys, two values for
\* each, and for the city table a value its CHECK refuses
Records(s) ==
    IF s = "country"
    THEN {CountryRecord("DEU", "Germany", y, IntV(v)) : y \in {2015, 2016}, v \in {70, 80}}
    ELSE {CityRecord("Berlin", "Germany", t, IntV(v)) : t \in {1, 2}, v \in {40, 60}}
         \cup {CityRecord("Berlin", "Germany", 1, IntV(150))}

LoadTables(s) ==
    {DataFrame(RecordColumns(s), rows) :
        rows \in UNION {[1..n -> Records(s)] : n \in 0..MaxRecords}}

InitLoad ==
    /\ pc = "ready"
    /\ ind = "none"
    /\ raw = Idle
    /\ out = Idle
    /\ again = Idle
    /\ first = 0
    /\ dfs = <<>>
    /\ combined = Idle
    /\ vdf = Idle
    /\ required = <<>>
    /\ verdict = "none"
    /\ RunIdle
    /\ sink \in {"country", "city"}
    /\ store = {}
    /\ batch = Idle
    /\ pending = {}
    /\ done = 0
    /\ committed = {}
    /\ latest = <<>>
    /\ loads = 0
    /\ LaterIdle

loadFrame == <<ind, raw, out, again, first, dfs, combined, vdf, required, verdict,
               artifact, previous, writes, sink, later>>

\* load(df) up to the statement: nothing happens for an empty table;
\* otherwise the transaction of engine.begin() opens on the committed rows
BeginLoad(df) ==
    /\ batch' = df
    /\ loads' = loads + 1
    /\ committed' = store
    /\ pending' = store
    /\ done' = 0
    /\ raised' = NoError
    /\ pc' = IF empty(df) THEN "returned" ELSE "execute"
    /\ UNCHANGED <<store, latest>>

CallLoad ==
    /\ pc \in {"ready", "returned", "loaded", "failed"}
    /\ loads < MaxLoads
    /\ \E df \in LoadTables(sink) : BeginLoad(df)
    /\ UNCHANGED loadFrame

\* connection.execute(stmt), one record of the VALUES list
ExecuteRow ==
    /\ pc = "execute"
    /\ done < Len(batch.rows)
    /\ ~Refused(sink, batch, done + 1)
    /\ pending' = upsert(sink, pending, batch.rows[done + 1], loads)
    /\ done' = done + 1
    /\ UNCHANGED <<pc, store, batch, committed, latest, loads, raised, loadFrame>>

\* the statement raises, by a record the table refuses or by a failure of
\* the database at any point: the with block rolls the transaction back and
\* the except clause re-raises
ExecuteFailsPartial ==
    /\ pc = "execute"
    /\ store' = pending
    /\ pending' = {}
    /\ raised' = Error("SQLAlchemyError")
    /\ pc' = "failed"
    /\ UNCHANGED <<batch, done, committed, latest, loads, loadFrame>>
ExecuteFails ==
    /\ pc = "execute"
    /\ pending' = {}
    /\ raised' = Error("SQLAlchemyError")
    /\ pc' = "failed"
    /\ UNCHANGED <<store, batch, done, committed, latest, loads, loadFrame>>

\* the with block ends: commit
Commit ==
    /\ pc = "execute"
    /\ done = Len(batch.rows)
    /\ store' = pending
    /\ pending' = {}
    /\ latest' = [k \in DOMAIN latest \cup {KeyOf(r, index_elements(sink)) : r \in Range(batch.rows)} |->
                    IF \E r \in Range(batch.rows) : KeyOf(r, index_elements(sink)) = k
                    THEN CHOOSE r \in Range(batch.rows) : KeyOf(r, index_elements(sink)) = k
                    ELSE latest[k]]
    /\ pc' = "loaded"
    /\ UNCHANGED <<batch, done, committed, loads, raised, loadFrame>>

NextLoad == CallLoad \/ ExecuteRow \/ ExecuteFails \/ Commit

SpecLoad == InitLoad /\ [][NextLoad]_vars


-----------------------------------------------------------------------------
(* Claims about load *)

RowKey(r) == KeyOf(r, index_elements(sink))
Loaded == pc = "loaded"

\* the statement of a table, record after record, on the rows it finds
RECURSIVE Statement(_, _, _, _)
Statement(s, rows, records, now) ==
    IF records = <<>> THEN rows
    ELSE Statement(s, upsert(s, rows, Head(records), now), Tail(records), now)

\* a stored row without the instant of its last update
Undated(rows) == {[c \in DOMAIN r \ {"updated_at"} |-> r[c]] : r \in rows}

C14_AllOrNothing ==
    /\ pc = "execute" => store = committed
    /\ pc = "failed" => store = committed /\ raised = Error("SQLAlchemyError")
    /\ IsError(raised) => pc = "failed"

\* a statement failed after it had changed rows of a table that was not empty
C14_Witness ==
    /\ pc = "failed"
    /\ done >= 1
    /\ committed # {}
    /\ Statement(sink, committed, SubSeq(batch.rows, 1, done), loads) # committed


-----------------------------------------------------------------------------
(* CountryDataETL.run: extract, transform, load *)

\* len(s) of the strings of the identifying columns
Lengths ==
    ("DE" :> 2) @@ ("DEU" :> 3) @@ ("Germany" :> 7) @@ ("France" :> 6) @@
    ("Berlin" :> 6) @@ ("Paris" :> 5)
IsStr(v) == Len(v) = 1
IsNumber(v) == Len(v) = 2
len(v) == Lengths[v[1]]

\* the ge and le constraints of the fields of CountryMetrics
FieldGe ==
    ("year" :> 1900) @@ ("consumer_price_index" :> 0) @@
    ("rent_expenditure_percent_gdp" :> 0) @@ ("house_price_to_income_ratio" :> 0) @@
    ("digital_economy_score" :> 0) @@ ("higher_education_score" :> 0) @@
    ("life_satisfaction_score" :> 0) @@ ("cultural_resources_index" :> 0) @@
    ("sports_expenditure_percent_gdp" :> 0) @@ ("road_traffic_mortality_rate" :> 0) @@
    ("forest_area_percent" :> 0) @@ ("life_expectancy_years" :> 0)
FieldLe ==
    ("year" :> 2100) @@ ("digital_economy_score" :> 100) @@
    ("higher_education_score" :> 100) @@ ("life_satisfaction_score" :> 10) @@
    ("cultural_resources_index" :> 100) @@ ("forest_area_percent" :> 100)

WithinField(field, v) ==
    /\ field \in DOMAIN FieldGe => Le(IntV(FieldGe[field]), v)
    /\ field \in DOMAIN FieldLe => Le(v, IntV(FieldLe[field]))

\* bool(v): NaN and a string with characters are true, a number unless zero
Truthy(v) == IsNumber(v) => v[1] # 0

\* the payload of a record: iso2 defaults to None, iso3 to the country
\* code, a missing metric becomes None (None is the missing value)
Payload(record) ==
    [c \in DOMAIN record \cup {"iso2", "iso3"} \cup Range(METRIC_COLUMNS) |->
        CASE c = "iso3" ->
                 IF "iso3" \in DOMAIN record /\ Truthy(record["iso3"])
                 THEN record["iso3"] ELSE record["country_code"]
          [] c \in DOMAIN record -> record[c]
          [] OTHER -> NaN]

\* CountryMetrics.model_validate(payload, strict=False) accepts the payload
from_record(payload) ==
    /\ IsStr(payload["country_name"])
    /\ len(payload["country_name"]) >= 1 /\ len(payload["country_name"]) <= 120
    /\ isna(payload["iso2"]) \/ (IsStr(payload["iso2"]) /\ len(payload["iso2"]) = 2)
    /\ IF "iso3" \in DOMAIN payload /\ notna(payload["iso3"])
       THEN IsStr(payload["iso3"]) /\ len(payload["iso3"]) = 3
       ELSE \* NaN passed the `or` as a true value and is no string
            FALSE
    /\ IsNumber(payload["year"]) /\ payload["year"][2] = 1
    /\ WithinField("year", payload["year"])
    /\ \A c \in Range(METRIC_COLUMNS) :
          isna(payload[c]) \/ (IsNumber(payload[c]) /\ WithinField(c, payload[c]))

\* model_dump() of the validated payload, with the country code put back,
\* as a row of ordered_columns
Dumped(payload) == [c \in Range(ordered_columns) |-> payload[c]]

\* df.dropna(subset=metric_columns, how="any")
DropNaAny(df, subset) ==
    DataFrame(df.columns,
              SelectSeq(df.rows, LAMBDA r : \A c \in Range(subset) : notna(r[c])))
\* df.dropna(subset=metric_columns, how="all")
DropNaAll(df, subset) ==
    DataFrame(df.columns,
              SelectSeq(df.rows, LAMBDA r : \E c \in Range(subset) : notna(r[c])))

\* the fields of CountryMetrics, the columns of the empty table
model_fields == <<"country_name", "iso2", "iso3", "year">> \o METRIC_COLUMNS

\* the outcomes of transform(df): the table, or the exception raised
transform_unchecked(df) ==
    LET fields == validate_required_fields(df, IDENTIFIER_COLUMNS)
        metric_columns == SelectSeq(df.columns, LAMBDA c : c \notin Range(IDENTIFIER_COLUMNS))
        kept == DropNaAll(df, metric_columns)
        payloads == [i \in 1..Len(kept.rows) |-> Payload(kept.rows[i])]
        transformed == DataFrame(ordered_columns,
                                 [i \in 1..Len(payloads) |-> Dumped(payloads[i])])
    IN  IF IsError(fields) THEN {fields}
        ELSE IF empty(kept) THEN {DataFrame(model_fields, <<>>)}
        ELSE IF \E i \in 1..Len(payloads) : ~from_record(payloads[i])
        THEN {Error("ValidationError")}
        ELSE {transformed}
transform(df) ==
    LET fields == validate_required_fields(df, IDENTIFIER_COLUMNS)
        metric_columns == SelectSeq(df.columns, LAMBDA c : c \notin Range(IDENTIFIER_COLUMNS))
        kept == DropNaAll(df, metric_columns)
        payloads == [i \in 1..Len(kept.rows) |-> Payload(kept.rows[i])]
        transformed == DataFrame(ordered_columns,
                                 [i \in 1..Len(payloads) |-> Dumped(payloads[i])])
    IN  IF IsError(fields) THEN {fields}
        ELSE IF empty(kept) THEN {DataFrame(model_fields, <<>>)}
        ELSE IF \E i \in 1..Len(payloads) : ~from_record(payloads[i])
        THEN {Error("ValidationError")}
        ELSE {IF IsError(v) THEN v ELSE transformed : v \in validate_data_ranges(transformed)}

\* the files extract can find at source_path: the identifier columns, any
\* one of them left out, and two metric columns; the k-th row is of the year
\* 2014 + k
RunColumns == IDENTIFIER_COLUMNS \o <<"employee_income_index", "life_satisfaction_score">>
RunRow(year, code, cells) ==
    [c \in Range(RunColumns) |->
        CASE c = "country_code" -> Str(code)
          [] c = "country_name" -> Str("Germany")
          [] c = "year" -> IntV(year)
          [] c = "employee_income_index" -> cells[1]
          [] c = "life_satisfaction_score" -> cells[2]]
RunCells ==
    {<<IntV(50), IntV(7)>>, <<NaN, NaN>>, <<IntV(-1), IntV(7)>>,
     <<IntV(50), IntV(11)>>, <<NaN, IntV(10)>>}
RunRows(k) ==
    {RunRow(2014 + k, "DEU", cells) : cells \in RunCells}
    \cup {RunRow(2014 + k, "DE", <<IntV(50), IntV(7)>>),
          RunRow(1800 + k, "DEU", <<IntV(50), IntV(7)>>)}
RECURSIVE RunLists(_)
RunLists(n) ==
    IF n = 0 THEN {<<>>}
    ELSE {Append(rows, r) : rows \in RunLists(n - 1), r \in RunRows(n)}
RunSources ==
    {Project(DataFrame(RunColumns, rows), SelectSeq(RunColumns, LAMBDA c : c # absent)) :
        rows \in UNION {RunLists(n) : n \in 0..MaxRecords},
        absent \in {"none"} \cup Range(IDENTIFIER_COLUMNS)}

\* the rows a former run left in the table
FormerRows ==
    {{}, {Excluded("country", CountryRecord("DEU", "Germany", 2015, IntV(60)), 0)}}

InitRun ==
    /\ pc = "run"
    /\ ind = "none"
    /\ raw = Idle
    /\ out = Idle
    /\ again = Idle
    /\ first = 0
    /\ dfs = <<>>
    /\ combined = Idle
    /\ vdf = Idle
    /\ required = <<>>
    /\ verdict = "none"
    /\ artifact \in {NoFile} \cup RunSources
    /\ previous = NoFile
    /\ writes = 0
    /\ raised = NoError
    /\ sink = "country"
    /\ store \in FormerRows
    /\ committed = store
    /\ latest = [k \in {RowKey(r) : r \in store} |->
                    CHOOSE r \in store : RowKey(r) = k]
    /\ batch = Idle
    /\ pending = {}
    /\ done = 0
    /\ loads = 0
    /\ LaterIdle

runFrame == <<ind, again, first, dfs, combined, vdf, required, verdict,
              artifact, previous, writes, sink, later>>

\* extract(): the file at source_path, read, or FileNotFoundError
Extract ==
    /\ pc = "run"
    /\ IF artifact = NoFile
       THEN /\ raised' = Error("FileNotFoundError")
            /\ pc' = "aborted"
            /\ raw' = raw
       ELSE /\ raw' = artifact
            /\ pc' = "extracted"
            /\ raised' = raised
    /\ UNCHANGED <<out, etlVars, runFrame>>

\* transform(extracted)
Transform ==
    /\ pc = "extracted"
    /\ \E result \in transform(raw) :
          IF IsError(result)
          THEN /\ raised' = result
               /\ pc' = "aborted"
               /\ out' = out
          ELSE /\ out' = result
               /\ pc' = "transformed"
               /\ raised' = raised
    /\ UNCHANGED <<raw, etlVars, runFrame>>

\* load(transformed), up to the statement
Load ==
    /\ pc = "transformed"
    /\ BeginLoad(out)
    /\ UNCHANGED <<raw, out, runFrame>>

NextRun == Extract \/ Transform \/ Load \/ ExecuteRow \/ ExecuteFails \/ Commit

SpecRun == InitRun /\ [][NextRun]_vars


-----------------------------------------------------------------------------
(* Claims about CountryDataETL.run *)

\* the value lies outside a bound configured for the column, by
\* validate_data_ranges or by the fields of CountryMetrics
Exceeds(column, v) ==
    /\ notna(v)
    /\ \/ column \in positive_columns /\ v[1] < 0
       \/ column \in TwoSided
          /\ (v[1] < BoundsOf(column)[1] * v[2] \/ v[1] > BoundsOf(column)[2] * v[2])
       \/ column \in DOMAIN FieldGe /\ v[1] < FieldGe[column] * v[2]
       \/ column \in DOMAIN FieldLe /\ v[1] > FieldLe[column] * v[2]

\* the rows of the source that carry a metric, the ones transform keeps
Carrying(df) ==
    {i \in 1..Len(df.rows) :
        \E c \in Cols(df) \ Range(IDENTIFIER_COLUMNS) : notna(df.rows[i][c])}

\* the source is missing, lacks an identifier column, or one of its rows
\* carrying a metric holds a value out of range in a column of the table
\* to load
Faulty ==
    \/ artifact = NoFile
    \/ ~(Range(IDENTIFIER_COLUMNS) \subseteq Cols(artifact))
    \/ \E i \in Carrying(artifact) :
          \E c \in Cols(artifact) \cap Range(ordered_columns) :
              Exceeds(c, artifact.rows[i][c])

\* C15: in a run, load is called only once the source file was found and
\* the required-field check and the range check accept the table loaded;
\* with a missing file, an absent identifier column or a value out of range
\* the run ends in an exception, without a call of load and with the rows
\* of the store untouched; no record handed to load holds a value outside a
\* configured bound
C15_ValidatedBeforeLoad ==
    /\ loads > 0 =>
          /\ artifact # NoFile /\ raw = artifact
          /\ validate_required_fields(raw, IDENTIFIER_COLUMNS) = Returned
          /\ validate_data_ranges(batch) = {Returned}
          /\ batch = out
    /\ Faulty =>
          /\ pc \in {"run", "extracted", "aborted"}
          /\ pc = "aborted" <=> IsError(raised)
          /\ pc # "aborted" => ENABLED NextRun
          /\ loads = 0 /\ store = committed /\ pending = {}
    /\ \A r \in Range(batch.rows) : \A c \in DOMAIN r : ~Exceeds(c, r[c])

\* a run over a store with rows was ended by the range check, on a value
\* the fields of CountryMetrics allow
C15_Witness ==
    /\ pc = "aborted"
    /\ "column" \in DOMAIN raised
    /\ raised.column = "employee_income_index"
    /\ store # {}
    /\ loads = 0


-----------------------------------------------------------------------------
(* CityDataETL.extract: one collection per city, failures skipped *)

MaxCities == 4

\* the ge and le constraints of the fields of CityMetrics
CityGe ==
    ("population" :> 0) @@ ("latitude" :> -90) @@ ("longitude" :> -180) @@
    ("happiness_index" :> 0) @@ ("health_index" :> 0) @@
    ("cost_of_living_index" :> 0) @@ ("housing_price_index" :> 0) @@
    ("traffic_congestion_score" :> 0) @@ ("education_level_score" :> 0) @@
    ("cultural_events_per_capita" :> 0) @@ ("sports_facilities_per_capita" :> 0) @@
    ("average_salary" :> 0) @@ ("rent_price_index" :> 0) @@
    ("wind_speed_avg" :> 0) @@ ("air_quality_index" :> 1) @@ ("humidity" :> 0) @@
    ("distance_to_water" :> 0) @@ ("distance_to_mountains" :> 0) @@
    ("distance_to_forest" :> 0) @@ ("distance_to_park" :> 0) @@
    ("forest_proximity_score" :> 0) @@ ("green_space_ratio" :> 0)
CityLe ==
    ("latitude" :> 90) @@ ("longitude" :> 180) @@
    ("happiness_index" :> 100) @@ ("health_index" :> 100) @@
    ("cost_of_living_index" :> 100) @@ ("housing_price_index" :> 100) @@
    ("traffic_congestion_score" :> 100) @@ ("education_level_score" :> 100) @@
    ("cultural_events_per_capita" :> 100) @@ ("sports_facilities_per_capita" :> 100) @@
    ("air_quality_index" :> 5) @@ ("humidity" :> 100) @@
    ("forest_proximity_score" :> 100) @@ ("green_space_ratio" :> 100)

CityTexts == {"city_name", "country", "region", "timezone"}

\* CityMetrics.model_validate(data, strict=False) accepts the mapping
from_api_data(data) ==
    /\ \A c \in {"city_name", "country"} :
          /\ c \in DOMAIN data
          /\ IsStr(data[c]) /\ len(data[c]) >= 1 /\ len(data[c]) <= 100
    /\ \A c \in DOMAIN data \cap {"region", "timezone"} : isna(data[c]) \/ IsStr(data[c])
    /\ \A c \in (DOMAIN data \cap Range(city_metrics)) \ CityTexts :
          \/ isna(data[c])
          \/ /\ IsNumber(data[c])
             /\ c \in DOMAIN CityGe => Le(IntV(CityGe[c]), data[c])
             /\ c \in DOMAIN CityLe => Le(data[c], IntV(CityLe[c]))

\* what collect_all_city_data(name, country) can do at instant now: raise,
\* return {} (no base info), or return the mapping of the city, stamped with
\* the instant, with a humidity CityMetrics accepts or one it rejects
CollectorAnswers(city, now) ==
    {Error("RequestException"), <<>>,
     CityRecord(city.name, city.country, now, IntV(40)),
     CityRecord(city.name, city.country, now, IntV(150))}

CityList ==
    {[name |-> "Berlin", country |-> "Germany"], [name |-> "Paris", country |-> "France"]}

InitExtract ==
    /\ pc = "cities"
    /\ ind = "none"
    /\ raw = Idle
    /\ out = Idle
    /\ again = Idle
    /\ first = 0
    /\ dfs = <<>>
    /\ combined = Idle
    /\ vdf = Idle
    /\ required = <<>>
    /\ verdict = "none"
    /\ RunIdle
    /\ EtlIdle
    /\ cities \in UNION {[1..n -> CityList] : n \in 0..MaxCities}
    /\ collected = <<>>
    /\ city_data = <<>>
    /\ env = <<>>
    /\ events = <<>>

extractFrame == <<ind, raw, out, again, first, dfs, combined, vdf, required, verdict,
                  artifact, previous, writes, etlVars, cfgVars, cities>>

\* one iteration of the loop, without the try
CollectCityUnguarded ==
    /\ pc = "cities"
    /\ Len(collected) < Len(cities)
    /\ \E answer \in CollectorAnswers(cities[Len(collected) + 1], Len(collected) + 1) :
          /\ collected' = Append(collected, answer)
          /\ IF IsError(answer)
             THEN raised' = answer /\ pc' = "aborted" /\ city_data' = city_data
             ELSE IF answer = <<>>
             THEN UNCHANGED <<raised, pc, city_data>>
             ELSE IF ~from_api_data(answer)
             THEN raised' = Error("ValidationError") /\ pc' = "aborted"
                  /\ city_data' = city_data
             ELSE city_data' = Append(city_data, answer) /\ UNCHANGED <<raised, pc>>
    /\ UNCHANGED extractFrame
\* one iteration of the loop: the mapping of the city is validated and
\* appended, unless the call raised, the mapping is empty ("if not raw:
\* continue") or the validation raised (both exceptions end in the except
\* clause, which logs)
CollectCity ==
    /\ pc = "cities"
    /\ Len(collected) < Len(cities)
    /\ \E answer \in CollectorAnswers(cities[Len(collected) + 1], Len(collected) + 1) :
          /\ collected' = Append(collected, answer)
          /\ city_data' =
                IF IsError(answer) \/ answer = <<>> \/ ~from_api_data(answer)
                THEN city_data
                ELSE Append(city_data, answer)
    /\ UNCHANGED <<pc, raised, extractFrame>>

\* the loop has ended: return city_data
ReturnCities ==
    /\ pc = "cities"
    /\ Len(collected) = Len(cities)
    /\ pc' = "collected"
    /\ UNCHANGED <<raised, cityVars, extractFrame>>

NextExtract == CollectCity \/ ReturnCities

SpecExtract == InitExtract /\ [][NextExtract]_vars

-----------------------------------------------------------------------------
(* Claims about CityDataETL.extract *)

\* the positions of the input list whose answers satisfy the test, in order
RECURSIVE Positions(_, _)
Positions(answers, keep) ==
    IF answers = <<>> THEN <<>>
    ELSE LET rest == Positions(SubSeq(answers, 1, Len(answers) - 1), keep)
         IN  IF keep[Len(answers)] THEN Append(rest, Len(answers)) ELSE rest

\* the position a record was collected at: the instant of its timestamp
Stamps == [k \in 1..Len(city_data) |-> city_data[k]["timestamp"][1]]

Answered == [i \in 1..Len(collected) |-> ~IsError(collected[i]) /\ collected[i] # <<>>]
Accepted == [i \in 1..Len(collected) |-> Answered[i] /\ from_api_data(collected[i])]

-----------------------------------------------------------------------------
(* Configuration: load_country_metrics.main and CityDataETL.__init__ *)

Settings == {"DATABASE_URL", "OPENWEATHER_API_KEY", "GEODB_API_KEY"}

\* os.getenv(name): None for a variable that is not set, else its string
Getenv == {"None", "", "value"}

\* `not value`
Falsy(value) == value \in {"None", ""}

\* the entry points: main of scripts/load_country_metrics.py, and the
\* construction of a CityDataETL followed by run_etl
InitConfig ==
    /\ pc \in {"main", "CityDataETL"}
    /\ ind = "none"
    /\ raw = Idle
    /\ out = Idle
    /\ again = Idle
    /\ first = 0
    /\ dfs = <<>>
    /\ combined = Idle
    /\ vdf = Idle
    /\ required = <<>>
    /\ verdict = "none"
    /\ RunIdle
    /\ EtlIdle
    /\ cities = <<>>
    /\ collected = <<>>
    /\ city_data = <<>>
    /\ env \in [vars : [Settings -> Getenv], CityDataCollector : {"class", "None"}]
    /\ events = <<>>

configFrame == <<ind, raw, out, again, first, dfs, combined, vdf, required, verdict,
                 artifact, previous, writes, etlVars, cityVars, env>>

\* main: database_url = os.getenv("DATABASE_URL"); raise if it is not set
ReadDatabaseUrl ==
    /\ pc = "main"
    /\ IF Falsy(env.vars["DATABASE_URL"])
       THEN raised' = Error("ValueError") /\ pc' = "main_raised"
       ELSE raised' = raised /\ pc' = "main_construct"
    /\ UNCHANGED <<events, configFrame>>

\* main: etl = CountryDataETL(database_url, source_path); create_engine
\* opens no connection
ConstructCountry ==
    /\ pc = "main_construct"
    /\ events' = Append(events, "create_engine")
    /\ pc' = "main_run"
    /\ UNCHANGED <<raised, configFrame>>

\* main: etl.run(), which looks for the source file and, with a table to
\* load, issues its statements
RunCountry ==
    /\ pc = "main_run"
    /\ events' \in {events \o <<"file">>, events \o <<"file", "statement">>}
    /\ pc' = "main_done"
    /\ UNCHANGED <<raised, configFrame>>

\* CityDataETL.__init__: self.engine = create_engine(database_url)
CreateEngine ==
    /\ pc = "CityDataETL"
    /\ events' = Append(events, "create_engine")
    /\ pc' = "city_collector"
    /\ UNCHANGED <<raised, configFrame>>

\* the collector constructed whatever the keys
ConstructCollectorUnchecked ==
    /\ pc = "city_collector"
    /\ IF env.CityDataCollector = "None"
       THEN raised' = Error("RuntimeError") /\ pc' = "city_raised"
       ELSE raised' = raised /\ pc' = "city_schema"
    /\ UNCHANGED <<events, configFrame>>
\* CityDataETL.__init__: the import of the collector failed, or
\* self.collector = CityDataCollector(), which raises unless both keys are set
ConstructCollector ==
    /\ pc = "city_collector"
    /\ IF env.CityDataCollector = "None"
       THEN raised' = Error("RuntimeError") /\ pc' = "city_raised"
       ELSE IF Falsy(env.vars["OPENWEATHER_API_KEY"]) \/ Falsy(env.vars["GEODB_API_KEY"])
       THEN raised' = Error("ValueError") /\ pc' = "city_raised"
       ELSE raised' = raised /\ pc' = "city_schema"
    /\ UNCHANGED <<events, configFrame>>

\* CityDataETL.__init__: self._ensure_schema_exists(), then the table
EnsureSchema ==
    /\ pc = "city_schema"
    /\ events' = Append(events, "statement")
    /\ pc' = "city_run"
    /\ UNCHANGED <<raised, configFrame>>

\* run_etl(cities): the requests of the collector, then the statement of
\* load when a record was collected
RunEtl ==
    /\ pc = "city_run"
    /\ events' \in {events, events \o <<"http">>, events \o <<"http", "statement">>}
    /\ pc' = "city_done"
    /\ UNCHANGED <<raised, configFrame>>

NextConfig ==
    \/ ReadDatabaseUrl \/ ConstructCountry \/ RunCountry
    \/ CreateEngine \/ ConstructCollector \/ EnsureSchema \/ RunEtl

SpecConfig == InitConfig /\ [][NextConfig]_vars

-----------------------------------------------------------------------------
(* Claims about the configuration *)

InMain == pc \in {"main", "main_raised", "main_construct", "main_run", "main_done"}
InCity == pc \in {"CityDataETL", "city_collector", "city_raised", "city_schema",
                  "city_run", "city_done"}
KeyMissing ==
    Falsy(env.vars["OPENWEATHER_API_KEY"]) \/ Falsy(env.vars["GEODB_API_KEY"])

\* C17: with DATABASE_URL not set, main raises with no ETL constructed, no
\* file looked at and no statement issued; with OPENWEATHER_API_KEY or
\* GEODB_API_KEY not set, the construction of CityDataETL raises in the
\* construction of the collector, with no HTTP request made and no
\* statement issued
C17_FailFast ==
    /\ InMain /\ Falsy(env.vars["DATABASE_URL"]) =>
          /\ pc \in {"main", "main_raised"}
          /\ pc = "main_raised" <=> raised = Error("ValueError")
          /\ events = <<>>
    /\ InCity /\ KeyMissing =>
          /\ pc \in {"CityDataETL", "city_collector", "city_raised"}
          /\ pc = "city_raised" <=> IsError(raised)
          /\ env.CityDataCollector = "class" /\ pc = "city_raised" =>
                raised = Error("ValueError")
          /\ Range(events) \subseteq {"create_engine"}
    /\ pc \in {"main", "CityDataETL", "city_collector"} => ENABLED NextConfig

\* the construction of CityDataETL raised for the one key that is not set
C17_Witness ==
    /\ pc = "city_raised"
    /\ raised = Error("ValueError")
    /\ env.vars["OPENWEATHER_API_KEY"] = "value"
    /\ env.vars["GEODB_API_KEY"] = "None"
    /\ events = <<"create_engine">>


-----------------------------------------------------------------------------
(* The reshaper on its own: the period columns of a standardized table     *)
(* chosen by pattern and melted into the long form, before the year filter *)
(* and the aggregation                                                     *)

\* the pattern, the name of the label column and the name of the value
\* column of the melt of an indicator
MeltOf(column_name) ==
    CASE column_name = "consumer_price_index" -> <<MONTHLY, "year_month", "cpi_monthly">>
      [] column_name = "house_price_to_income_ratio" -> <<QUARTERLY, "quarter", "ratio">>
      [] column_name = "higher_education_score" -> <<ANNUAL, "year_raw", "higher_education_raw">>
      [] column_name = "cultural_resources_index" -> <<ANNUAL, "year_raw", "cultural_resources_raw">>
      [] OTHER -> <<ANNUAL, "year_raw", column_name>>

\* value_cols, df[[CODE_COL, NAME_COL] + value_cols], melt, dropna, year
Reshaped(df, pattern, var_name, value_name) ==
    LET value_cols == SelectSeq(df.columns, LAMBDA c : fullmatch(pattern, c))
    IN  LongForm(Project(df, <<CODE_COL, NAME_COL>> \o value_cols),
                 value_cols, var_name, value_name)

\* the tables that reach the reshaper: the rows of a file that pass the
\* filters of the indicator, the identifier columns renamed
ReshaperTables(column_name) ==
    {_standardize(DataFrame(t.columns,
                            SelectSeq(t.rows, LAMBDA r : PassesFilters(column_name, r)))) :
        t \in SourceTables(column_name)}

InitReshape ==
    /\ pc = "reshape"
    /\ ind \in Range(generators)
    /\ raw \in ReshaperTables(ind)
    /\ out = Idle
    /\ again = Idle
    /\ first = 0
    /\ dfs = <<>>
    /\ combined = Idle
    /\ vdf = Idle
    /\ required = <<>>
    /\ verdict = "none"
    /\ RestIdle

Reshape ==
    /\ pc = "reshape"
    /\ out' = Reshaped(raw, MeltOf(ind)[1], MeltOf(ind)[2], MeltOf(ind)[3])
    /\ pc' = "reshaped"
    /\ UNCHANGED <<ind, raw, again, first, dfs, combined, vdf, required, verdict, restVars>>

\* the rest of the aggregator: year filter and mean per group
Annualize ==
    /\ pc = "reshaped"
    /\ again' = LET kept == YearFilter(out)
                IN  IF empty(kept) THEN kept
                    ELSE GroupByMean(kept, <<CODE_COL, NAME_COL, "year">>, MeltOf(ind)[3])
    /\ pc' = "annual"
    /\ UNCHANGED <<ind, raw, out, first, dfs, combined, vdf, required, verdict, restVars>>

NextReshape == Reshape \/ Annualize

SpecReshape == InitReshape /\ [][NextReshape]_vars

-----------------------------------------------------------------------------
(* Claims about the reshaper (SpecReshape) *)

\* the cells <<row, period label>> of the table that hold a value, the
\* period labels being those of the indicator's file
ValueCells == {x \in (1..Len(raw.rows)) \X Range(Periods(ind)) : notna(raw.rows[x[1]][x[2]])}

\* the observation of a cell
ObservationOf(x) ==
    (CODE_COL :> raw.rows[x[1]][CODE_COL]) @@ (NAME_COL :> raw.rows[x[1]][NAME_COL]) @@
    (MeltOf(ind)[2] :> Str(x[2])) @@ (MeltOf(ind)[3] :> raw.rows[x[1]][x[2]]) @@
    ("year" :> IntV(PeriodYear[x[2]]))

\* C21: the long form holds one observation for every cell with a value in
\* a column whose whole label matches the pattern of the indicator, and no
\* other row: the observation carries the identifiers of the cell's row, the
\* label of its column, its value, and the year read from the first four
\* characters of the label; a missing cell and a column whose label only
\* starts like a period give none
C21_OneObservationPerCell ==
    pc = "reshaped" =>
        /\ Len(out.rows) = Cardinality(ValueCells)
        /\ \A x \in ValueCells :
              Cardinality({k \in 1..Len(out.rows) : out.rows[k] = ObservationOf(x)})
                  = Cardinality({y \in ValueCells : ObservationOf(y) = ObservationOf(x)})
        /\ \A k \in 1..Len(out.rows) :
              out.rows[k][MeltOf(ind)[2]] # Str(Foreign(ind))

\* a row with a value of 2014, a missing cell and a value of a later period,
\* reshaped into two observations
C21_Witness ==
    /\ pc = "reshaped"
    /\ \E i \in 1..Len(raw.rows) :
          /\ notna(raw.rows[i][Periods(ind)[1]])
          /\ isna(raw.rows[i][Periods(ind)[2]])
          /\ notna(raw.rows[i][Periods(ind)[3]])
          /\ notna(raw.rows[i][Foreign(ind)])
    /\ Len(out.rows) = 2
    /\ out.rows[1]["year"] = IntV(2014)


-----------------------------------------------------------------------------
(* Further claims about one indicator pipeline (SpecPrepare) *)

\* the rows of the file that hold the kept value in some of the categorical
\* columns of the indicator, and not in all
PartialRows ==
    {i \in 1..Len(raw.rows) :
        /\ ~PassesFilters(ind, raw.rows[i])
        /\ \E k \in 1..Len(Categories(ind)) :
              raw.rows[i][Categories(ind)[k][1]] = Str(Categories(ind)[k][2])}

\* the file without the rows that fail a filter
OnlyPassing(table) ==
    DataFrame(table.columns, SelectSeq(table.rows, LAMBDA r : PassesFilters(ind, r)))

\* C22: for an indicator with several categorical filters, the output is
\* the one of the file without the rows that fail any of the filters: a row
\* that matches only some of them gives no row of its own and leaves every
\* annual mean as the rows matching all of them make it
C22_AllFilters ==
    Prepared /\ Len(Categories(ind)) >= 2 =>
        /\ out = factory(ind, OnlyPassing(raw))
        /\ Len(out.rows) = Cardinality(TriplesFrom(ind, raw, 2015))
        /\ \A i \in PartialRows :
              \A k \in 1..Len(out.rows) :
                  /\ out.rows[k][CODE_COL] = raw.rows[i]["REF_AREA"]
                  /\ out.rows[k][NAME_COL] = raw.rows[i]["REF_AREA_LABEL"]
                  => LET cells == CellsOf(ind, raw, out.rows[k][CODE_COL],
                                          out.rows[k][NAME_COL], out.rows[k]["year"][1])
                     IN  /\ cells # {}
                         /\ \A c \in cells : c[1] # i
                         /\ out.rows[k][ind] = Num(SumCells(raw, cells), Cardinality(cells))

\* a row matching one filter of two holds 20 for the country and year for
\* which a row matching both holds 10: the output is 10
C22_Witness ==
    /\ Prepared
    /\ Len(Categories(ind)) >= 2
    /\ \E i \in PartialRows : \E j \in 1..Len(raw.rows) :
          /\ PassesFilters(ind, raw.rows[j])
          /\ raw.rows[j]["REF_AREA"] = raw.rows[i]["REF_AREA"]
          /\ raw.rows[j]["REF_AREA_LABEL"] = raw.rows[i]["REF_AREA_LABEL"]
          /\ raw.rows[i][Periods(ind)[2]] = IntV(20)
          /\ raw.rows[j][Periods(ind)[2]] = IntV(10)
          /\ isna(raw.rows[j][Periods(ind)[3]])
    /\ Len(out.rows) = 1
    /\ out.rows[1][ind] = IntV(10)


-----------------------------------------------------------------------------
(* _forward_fill_per_country on any table of an indicator: rows in any     *)
(* order, years missing between two rows of a country, values missing      *)

MaxFill == 3   \* rows of a table handed to _forward_fill_per_country

FillRows(column_name) ==
    {(CODE_COL :> id[1]) @@ (NAME_COL :> id[2]) @@ ("year" :> IntV(y)) @@ (column_name :> v) :
        id \in Countries, y \in {2015, 2017}, v \in {NaN, IntV(10)}}

FillTables(column_name) ==
    {DataFrame(<<CODE_COL, NAME_COL, "year", column_name>>, rows) :
        rows \in UNION {[1..n -> FillRows(column_name)] : n \in 0..MaxFill}}

InitFill ==
    /\ pc = "fill"
    /\ ind \in {"employee_income_index", "life_expectancy_years"}
    /\ raw \in FillTables(ind)
    /\ out = Idle
    /\ again = Idle
    /\ first = 0
    /\ dfs = <<>>
    /\ combined = Idle
    /\ vdf = Idle
    /\ required = <<>>
    /\ verdict = "none"
    /\ RestIdle

\* df = _forward_fill_per_country(df, column_name)
Fill ==
    /\ pc = "fill"
    /\ out' = _forward_fill_per_country(raw, ind)
    /\ pc' = "filled"
    /\ UNCHANGED <<ind, raw, again, first, dfs, combined, vdf, required, verdict, restVars>>

\* the pass applied to its own result
FillAgain ==
    /\ pc = "filled"
    /\ again' = _forward_fill_per_country(out, ind)
    /\ pc' = "refilled"
    /\ UNCHANGED <<ind, raw, out, first, dfs, combined, vdf, required, verdict, restVars>>

NextFill == Fill \/ FillAgain

SpecFill == InitFill /\ [][NextFill]_vars

-----------------------------------------------------------------------------
(* Claims about _forward_fill_per_country (SpecFill) *)

Filled == pc \in {"filled", "refilled"}

Copies(table, r) == Cardinality({i \in 1..Len(table.rows) : table.rows[i] = r})

\* C23: _forward_fill_per_country returns the rows it was given, each as
\* many times as given and with its values as given (no row for a year
\* without one, no missing value replaced), in ascending order of
\* (country_code, country_name, year); an empty table comes back as it is
C23_FillIsIdentity ==
    Filled =>
        /\ out.columns = raw.columns
        /\ Len(out.rows) = Len(raw.rows)
        /\ \A r \in Range(raw.rows) \cup Range(out.rows) : Copies(out, r) = Copies(raw, r)
        /\ \A i \in 1..(Len(out.rows) - 1) :
              ~KeyLess(KeyOf(out.rows[i + 1], <<CODE_COL, NAME_COL, "year">>),
                       KeyOf(out.rows[i], <<CODE_COL, NAME_COL, "year">>))
        /\ empty(raw) => out = raw
        /\ pc = "refilled" => again = out

\* a table given as (DE, 2017, missing), (DE, 2015, 10) comes back in the
\* order of the years, 2016 absent and the value of 2017 missing
C23_Witness ==
    /\ pc = "filled"
    /\ Len(raw.rows) = 2
    /\ raw.rows[1]["year"] = IntV(2017) /\ isna(raw.rows[1][ind])
    /\ raw.rows[2]["year"] = IntV(2015) /\ notna(raw.rows[2][ind])
    /\ raw.rows[1][CODE_COL] = raw.rows[2][CODE_COL]
    /\ out.rows[1] = raw.rows[2]
    /\ out.rows[2] = raw.rows[1]


-----------------------------------------------------------------------------
(* Claims about the names of a country in the merge (SpecMerge) *)

\* the names the frames give a code in a year
NamesOf(code, year) == {t[2] : t \in {u \in AllTriples : u[1] = code /\ u[3] = year}}

CodeYears == {<<t[1], t[3]>> : t \in AllTriples}

RowsOfCodeYear(table, cy) ==
    {i \in 1..Len(table.rows) :
        table.rows[i][CODE_COL] = cy[1] /\ table.rows[i]["year"] = cy[2]}

\* C24: the merged table has, for a country code and year, one row per
\* name the frames give the code in that year; the row of a name holds a
\* missing value in the column of every indicator whose frame has the code
\* and year under another name only; so a (country_code, year) is found in
\* one row exactly when the frames agree on the name
C24_RowPerNameVariant ==
    Merged =>
        /\ \A cy \in CodeYears :
              /\ Cardinality(RowsOfCodeYear(combined, cy)) = Cardinality(NamesOf(cy[1], cy[2]))
              /\ \A n \in NamesOf(cy[1], cy[2]) :
                    /\ Cardinality(RowsOf(combined, <<cy[1], n, cy[2]>>)) = 1
                    /\ \A i \in RowsOf(combined, <<cy[1], n, cy[2]>>) :
                          \A j \in 1..Len(dfs) :
                              /\ ColumnOf(j) \in Cols(combined)
                              /\ <<cy[1], n, cy[2]>> \notin Triples(dfs[j])
                              => isna(combined.rows[i][ColumnOf(j)])
        /\ (\A cy \in CodeYears : Cardinality(NamesOf(cy[1], cy[2])) = 1)
              <=> (\A i, j \in 1..Len(combined.rows) :
                      /\ combined.rows[i][CODE_COL] = combined.rows[j][CODE_COL]
                      /\ combined.rows[i]["year"] = combined.rows[j]["year"]
                      => i = j)

\* DE in 2015 as Germany in one frame and as Deutschland in another: two rows
\* of (DE, 2015), each with the value of its frame and none of the other's
C24_Witness ==
    /\ Merged
    /\ \E i, j \in 1..Len(combined.rows) : \E a, b \in 1..Len(dfs) :
          /\ a # b
          /\ combined.rows[i][CODE_COL] = Str("DE") /\ combined.rows[j][CODE_COL] = Str("DE")
          /\ combined.rows[i]["year"] = IntV(2015) /\ combined.rows[j]["year"] = IntV(2015)
          /\ combined.rows[i][NAME_COL] = Str("Germany")
          /\ combined.rows[j][NAME_COL] = Str("Deutschland")
          /\ notna(combined.rows[i][ColumnOf(a)]) /\ isna(combined.rows[i][ColumnOf(b)])
          /\ isna(combined.rows[j][ColumnOf(a)]) /\ notna(combined.rows[j][ColumnOf(b)])


-----------------------------------------------------------------------------
(* Claims about the error of validate_data_ranges (SpecValidate) *)

\* the columns of the table with a value out of range
Violating == {x[2] : x \in OutOfRange \cup BelowZero}

\* the position of a column in the order of the checks: the bounded columns
\* in the order of their dict, then the non-negative columns, all at one
\* position, then latitude, then longitude
CheckRank(column) ==
    IF \E k \in 1..Len(bounded_columns) : bounded_columns[k][1] = column
    THEN CHOOSE k \in 1..Len(bounded_columns) : bounded_columns[k][1] = column
    ELSE IF column \in positive_columns THEN Len(bounded_columns) + 1
    ELSE IF column = "latitude" THEN Len(bounded_columns) + 2
    ELSE Len(bounded_columns) + 3

\* the rows of the table whose value in the column is out of range, as index
\* labels in ascending order
Offending(column) ==
    LET at == {x[1] : x \in {y \in OutOfRange \cup BelowZero : y[2] = column}}
        RECURSIVE asc(_)
        asc(S) == IF S = {} THEN <<>>
                  ELSE LET m == CHOOSE m \in S : \A n \in S : m <= n
                       IN  <<m - 1>> \o asc(S \ {m})
    IN  asc(at)

\* C25 as stated: the error of a rejected table is the one a fixed order of
\* the checks determines: it names the first violating column of that order
\* and exactly the rows out of range in it, so a table has one error only
C25_FirstInFixedOrder ==
    RangesChecked /\ IsError(verdict) =>
        /\ verdict.column \in Violating
        /\ \A c \in Violating : CheckRank(verdict.column) <= CheckRank(c)
        /\ verdict.rows = Offending(verdict.column)
        /\ validate_data_ranges(vdf) = {verdict}

\* C25, amended: the error of a rejected table names one violating column
\* and exactly the rows out of range in it; the column is of the first kind
\* of check that finds a violation (bounded columns, then non-negative
\* columns, then latitude, then longitude) and, among the bounded columns,
\* the first of their order, while among the non-negative columns, which
\* are checked in no fixed order, each violating column can be the one named
C25_NamedColumnAndRows ==
    RangesChecked /\ IsError(verdict) =>
        /\ verdict.column \in Violating
        /\ \A c \in Violating : CheckRank(verdict.column) <= CheckRank(c)
        /\ verdict.rows = Offending(verdict.column)
        /\ validate_data_ranges(vdf) =
               {RangeError(c, Offending(c)) :
                   c \in {d \in Violating : CheckRank(d) = CheckRank(verdict.column)}}

\* a table with values below zero in two non-negative columns, one of them
\* in its second row only, rejected for that column and row
C25_Witness ==
    /\ RangesChecked
    /\ IsError(verdict)
    /\ Len(vdf.rows) = 2
    /\ verdict.rows = <<1>>
    /\ verdict.column \in positive_columns
    /\ \E c \in Violating \cap positive_columns : c # verdict.column


-----------------------------------------------------------------------------
(* Claims about the identifiers of the annual tables (SpecPrepare) *)

\* the file without the rows whose country code or country name is missing
Identified(table) ==
    DataFrame(table.columns,
              SelectSeq(table.rows,
                        LAMBDA r : notna(r["REF_AREA"]) /\ notna(r["REF_AREA_LABEL"])))

\* the rows of the file with a missing identifier that hold the kept value
\* in every categorical column and an observation from YEAR_MIN on
Anonymous(column_name, table) ==
    {i \in 1..Len(table.rows) :
        /\ isna(table.rows[i]["REF_AREA"]) \/ isna(table.rows[i]["REF_AREA_LABEL"])
        /\ PassesFilters(column_name, table.rows[i])
        /\ \E p \in Range(Periods(column_name)) :
               notna(table.rows[i][p]) /\ PeriodYear[p] >= YEAR_MIN}

\* C26: every row of a per-indicator annual table has a country_code (and a
\* country_name) that is not missing, and the rows of the table are those
\* the file gives without its rows of missing country code or country
\* name: such a row produces no output row and changes no other
C26_IdentifiedRows ==
    Prepared =>
        /\ \A i \in 1..Len(out.rows) :
               notna(out.rows[i][CODE_COL]) /\ notna(out.rows[i][NAME_COL])
        /\ out.rows = factory(ind, Identified(raw)).rows

\* a file with a row of a country and a row without country code that
\* passes every filter and holds an observation, prepared into a table with
\* the country's row
C26_Witness ==
    /\ Prepared
    /\ \E i \in Anonymous(ind, raw) : isna(raw.rows[i]["REF_AREA"])
    /\ Len(out.rows) >= 1


-----------------------------------------------------------------------------
(* CityDataETL.run_etl: extract, transform, load *)

MaxRunCities == 2   \* cities handed to run_etl

\* CityDataETL.transform: the records dumped into a table; an empty table
\* is returned as it is, another one after the two checks
transform_city(records) ==
    LET df == IF records = <<>> THEN DataFrame(<<>>, <<>>)
              ELSE DataFrame(city_metrics, records)
        fields == validate_required_fields(df, <<"city_name", "country", "timestamp">>)
    IN  IF empty(df) THEN {df}
        ELSE IF IsError(fields) THEN {fields}
        ELSE {IF IsError(v) THEN v ELSE df : v \in validate_data_ranges(df)}

InitCityRun ==
    /\ pc = "cities"
    /\ ind = "none"
    /\ raw = Idle
    /\ out = Idle
    /\ again = Idle
    /\ first = 0
    /\ dfs = <<>>
    /\ combined = Idle
    /\ vdf = Idle
    /\ required = <<>>
    /\ verdict = "none"
    /\ RunIdle
    /\ sink = "city"
    /\ store = {}
    /\ batch = Idle
    /\ pending = {}
    /\ done = 0
    /\ committed = {}
    /\ latest = <<>>
    /\ loads = 0
    /\ cities \in UNION {[1..n -> CityList] : n \in 0..MaxRunCities}
    /\ collected = <<>>
    /\ city_data = <<>>
    /\ env = <<>>
    /\ events = <<>>

cityRunFrame == <<ind, raw, again, first, dfs, combined, vdf, required, verdict,
                  artifact, previous, writes, sink, later>>

\* transformed = self.transform(extracted)
TransformCity ==
    /\ pc = "collected"
    /\ \E result \in transform_city(city_data) :
          IF IsError(result)
          THEN /\ raised' = result
               /\ pc' = "aborted"
               /\ out' = out
          ELSE /\ out' = result
               /\ pc' = "validated"
               /\ raised' = raised
    /\ UNCHANGED <<etlVars, cityRunFrame>>

\* self.load(transformed), up to the statement
LoadCity ==
    /\ pc = "validated"
    /\ BeginLoad(out)
    /\ UNCHANGED <<out, cityRunFrame>>

NextCityRun ==
    CollectCity \/ ReturnCities \/ TransformCity \/ LoadCity
        \/ ExecuteRow \/ ExecuteFails \/ Commit

SpecCityRun == InitCityRun /\ [][NextCityRun]_vars

-----------------------------------------------------------------------------
(* Claims about run_etl (SpecCityRun) *)

\* the mapping holds a number outside the range of its field of CityMetrics
HoldsOutOfRange(data) ==
    /\ ~IsError(data)
    /\ \E c \in DOMAIN data \cap (DOMAIN CityGe \cup DOMAIN CityLe) :
          /\ IsNumber(data[c])
          /\ \/ c \in DOMAIN CityGe /\ Lt(data[c], IntV(CityGe[c]))
             \/ c \in DOMAIN CityLe /\ Lt(IntV(CityLe[c]), data[c])

\* C27: once a collected record holds a value out of range, run_etl does
\* not get past transform: it ends with a range error, no load is called
\* and no row is stored; the record is not left out while the records of
\* the other cities are validated and loaded
C27_OutOfRangeAborts ==
    (\E i \in 1..Len(collected) : HoldsOutOfRange(collected[i])) =>
        /\ pc \in {"cities", "collected", "aborted"}
        /\ pc = "aborted" => "column" \in DOMAIN raised
        /\ loads = 0
        /\ store = {}


-----------------------------------------------------------------------------
(* CityDataCollector.collect_all_city_data: the base lookup, then the      *)
(* sub-sources, then the flat mapping                                      *)

\* Python's None where a mapping is expected
None == [none |-> TRUE]

\* what _safe_get returns: None after a RequestException, or a response
\* whose json() gives the body or, for a body that is not JSON, raises
NoResponse == [response |-> FALSE]
Unreadable == [response |-> TRUE, readable |-> FALSE]
Response(body) == [response |-> TRUE, readable |-> TRUE, body |-> body]

\* mapping.get(key): the value, or None (a missing cell) without the key
Get(mapping, key) == IF key \in DOMAIN mapping THEN mapping[key] ELSE NaN

\* get_basic_city_info, given what _safe_get returned for /cities
get_basic_city_info(response) ==
    IF response = NoResponse THEN <<>>
    ELSE IF ~response.readable THEN Error("JSONDecodeError")
    ELSE IF "data" \notin DOMAIN response.body \/ response.body.data = <<>> THEN <<>>
    ELSE LET city == response.body.data[1]
         IN  [city_id |-> Get(city, "id"),
              latitude |-> Get(city, "latitude"),
              longitude |-> Get(city, "longitude"),
              population |-> Get(city, "population"),
              region |-> Get(city, "region"),
              country_code |-> Get(city, "countryCode")]

\* get_detailed_city_info, given what _safe_get returned for
\* /cities/{city_id}/details: response.json().get("data", {})
get_detailed_city_info(response) ==
    IF response = NoResponse THEN <<>>
    ELSE IF ~response.readable THEN Error("JSONDecodeError")
    ELSE IF "data" \notin DOMAIN response.body THEN <<>>
    ELSE response.body.data

\* the keys of the mapping collect_all_city_data returns, by the local
\* variable they are read from
BasicKeys == {"population", "latitude", "longitude", "region"}
DetailKeys == {"elevation", "timezone"}
QolKeys ==
    {"happiness_index", "health_index", "cost_of_living_index",
     "housing_price_index", "traffic_congestion_score", "education_level_score",
     "cultural_events_per_capita", "sports_facilities_per_capita",
     "economic_growth_rate", "average_salary", "rent_price_index"}
EnvKeys == {"wind_speed_avg", "air_quality_index", "temperature", "humidity"}
NaturalKeys ==
    {"distance_to_water", "distance_to_mountains", "distance_to_forest",
     "distance_to_park", "forest_proximity_score", "green_space_ratio"}

\* collect_all_city_data(city_name, country) at instant now, given the
\* responses of the two GeoDB requests and what the guarded sub-sources
\* return (a mapping, empty after a failure; a ratio or None):
\* answers.qol, answers.env, answers.natural, answers.green
collect_all_city_data(city_name, country, now, answers) ==
    LET basic_info == get_basic_city_info(answers.cities)
    IN  IF IsError(basic_info) THEN basic_info
        ELSE IF basic_info = <<>> THEN <<>>
        ELSE
        LET lat == basic_info.latitude
            lon == basic_info.longitude
            city_id == basic_info.city_id
            located == notna(lat) /\ notna(lon)
            detailed_info == IF notna(city_id)
                             THEN get_detailed_city_info(answers.details)
                             ELSE <<>>
            qol_metrics == answers.qol
            env_metrics == IF located THEN answers.env ELSE <<>>
            analysed == IF located THEN answers.natural ELSE <<>>
            natural_features ==
                IF located /\ notna(answers.green)
                THEN [k \in DOMAIN analysed \cup {"green_space_ratio"} |->
                         IF k = "green_space_ratio" THEN answers.green
                         ELSE analysed[k]]
                ELSE analysed
        IN  IF IsError(detailed_info) THEN detailed_info
            ELSE IF detailed_info = None THEN Error("AttributeError")
            ELSE [c \in Range(city_metrics) |->
                    CASE c = "city_name" -> Str(city_name)
                      [] c = "country" -> Str(country)
                      [] c = "timestamp" -> IntV(now)
                      [] c \in BasicKeys -> basic_info[c]
                      [] c \in DetailKeys -> Get(detailed_info, c)
                      [] c \in QolKeys -> Get(qol_metrics, c)
                      [] c \in EnvKeys -> Get(env_metrics, c)
                      [] OTHER -> Get(natural_features, c)]

\* the answers of GeoDB to /cities: no response, a body that is not JSON, no
\* match, a match without coordinates, a match without id, a full match
CitiesResponses ==
    LET found(id, lat, lon) ==
            [id |-> id, latitude |-> lat, longitude |-> lon,
             population |-> IntV(3000), region |-> Str("Germany"),
             countryCode |-> Str("DE")]
    IN  {NoResponse, Unreadable, Response([data |-> <<>>]), Response(<<>>),
         Response([data |-> <<found(Str("DE"), NaN, NaN)>>]),
         Response([data |-> <<found(NaN, IntV(50), IntV(10))>>]),
         Response([data |-> <<found(Str("DE"), IntV(50), IntV(10))>>])}

\* the answers of GeoDB to /cities/{id}/details
DetailsResponses ==
    {NoResponse, Unreadable, Response(<<>>), Response([data |-> None]),
     Response([data |-> [elevation |-> IntV(30), timezone |-> Str("DE")]])}

\* what get_quality_of_life_metrics returns: {} after any failure
QolAnswers ==
    {<<>>,
     [k \in QolKeys \cup {"green_space_ratio"} |->
         IF k \in {"economic_growth_rate", "average_salary", "rent_price_index"}
         THEN NaN ELSE IntV(70)]}

\* what get_environmental_metrics returns: {} after any failure, the air
\* quality missing when its own request failed
EnvAnswers ==
    {<<>>} \cup
    {[wind_speed_avg |-> IntV(3), air_quality_index |-> aqi,
      temperature |-> IntV(20), humidity |-> IntV(40)] : aqi \in {NaN, IntV(2)}}

\* what analyze_natural_features returns: {} after any failure
NaturalAnswers ==
    {<<>>,
     [distance_to_water |-> IntV(1), distance_to_mountains |-> NaN,
      distance_to_forest |-> IntV(2), distance_to_park |-> IntV(1),
      forest_proximity_score |-> IntV(80), green_space_ratio |-> NaN]}

\* what calculate_green_space_ratio returns: None after any failure
GreenAnswers == {NaN, IntV(30)}

InitCollect ==
    /\ pc = "collect"
    /\ ind = "none"
    /\ raw = Idle
    /\ out = Idle
    /\ again = Idle
    /\ first = 0
    /\ dfs = <<>>
    /\ combined = Idle
    /\ vdf = Idle
    /\ required = <<>>
    /\ verdict = "none"
    /\ RunIdle
    /\ EtlIdle
    /\ cities \in {<<city>> : city \in CityList}
    /\ collected = <<>>
    /\ city_data = <<>>
    /\ env = <<>>
    /\ events = <<>>

\* raw = self.collector.collect_all_city_data(city["name"], city["country"]);
\* collected keeps what the sources answered
CollectAllCityData ==
    /\ pc = "collect"
    /\ \E answers \in [cities : CitiesResponses, details : DetailsResponses,
                       qol : QolAnswers, env : EnvAnswers,
                       natural : NaturalAnswers, green : GreenAnswers] :
          LET result == collect_all_city_data(cities[1].name, cities[1].country,
                                              1, answers)
          IN  /\ collected' = answers
              /\ IF IsError(result)
                 THEN raised' = result /\ raw' = raw /\ pc' = "raised"
                 ELSE raw' = result /\ raised' = raised /\ pc' = "returned"
    /\ UNCHANGED <<ind, out, again, first, dfs, combined, vdf, required, verdict,
                   artifact, previous, writes, etlVars, cfgVars, cities, city_data>>

SpecCollect == InitCollect /\ [][CollectAllCityData]_vars

-----------------------------------------------------------------------------
(* Claims about collect_all_city_data (SpecCollect) *)

\* the base lookup yielded a city
BaseFound == get_basic_city_info(collected.cities) \notin {<<>>, Error("JSONDecodeError")}

\* the sub-source behind the keys was skipped or failed
Skipped(keys) ==
    LET basic_info == get_basic_city_info(collected.cities)
        located == notna(basic_info.latitude) /\ notna(basic_info.longitude)
    IN  CASE keys = DetailKeys ->
                \/ isna(basic_info.city_id)
                \/ collected.details \in {NoResponse, Unreadable, Response([data |-> None])}
          [] keys = QolKeys -> collected.qol = <<>>
          [] keys = EnvKeys -> ~located \/ collected.env = <<>>
          [] OTHER -> ~located \/ (collected.natural = <<>> /\ isna(collected.green))

\* the values a sub-source that succeeded gave for its keys
Given(keys) ==
    CASE keys = DetailKeys ->
            [k \in keys |-> Get(Get(collected.details.body, "data"), k)]
      [] keys = QolKeys -> [k \in keys |-> Get(collected.qol, k)]
      [] keys = EnvKeys -> [k \in keys |-> Get(collected.env, k)]
      [] OTHER -> [k \in keys |->
                      IF k = "green_space_ratio" /\ notna(collected.green)
                      THEN collected.green
                      ELSE Get(collected.natural, k)]

\* C28: the call returns for every answer of the sources; it returns the
\* empty mapping exactly when the base lookup yields no city; otherwise it
\* returns a mapping with the keys of the city record, in which the metrics
\* of a skipped or failed sub-source are all missing and those of every
\* other sub-source are the ones it gave
C28_FlatMappingOrEmpty ==
    pc # "collect" =>
        /\ pc = "returned"
        /\ raw = <<>> <=> ~BaseFound
        /\ BaseFound =>
              /\ DOMAIN raw = Range(city_metrics)
              /\ \A keys \in {DetailKeys, QolKeys, EnvKeys, NaturalKeys} :
                    IF Skipped(keys)
                    THEN \A k \in keys : isna(raw[k])
                    ELSE \A k \in keys : raw[k] = Given(keys)[k]


-----------------------------------------------------------------------------
(* Claims about CountryDataETL.transform (SpecRun) *)

\* the records of the source: its rows that carry a metric, in their order
RecordsOf(df) ==
    SelectSeq(df.rows,
              LAMBDA r : \E c \in Cols(df) \ Range(IDENTIFIER_COLUMNS) : notna(r[c]))

\* the source has the identifier columns and every value of its records
\* lies within the bounds configured for its column
WithinBounds(df) ==
    /\ Range(IDENTIFIER_COLUMNS) \subseteq Cols(df)
    /\ \A i \in Carrying(df) :
          \A c \in Cols(df) \cap Range(ordered_columns) : ~Exceeds(c, df.rows[i][c])

\* transform has been called on the extracted table
TransformCalled == pc \notin {"run", "extracted"} /\ raw # Idle

\* C29: transform returns for every table whose records hold values within
\* the configured bounds, whatever the form of their country codes: the
\* output has one row per record, in order, with the record's country_code,
\* country_name, year and metric values and with the country_code as iso3
C29_AcceptsEveryCode ==
    TransformCalled /\ WithinBounds(raw) =>
        /\ pc # "aborted"
        /\ Len(out.rows) = Len(RecordsOf(raw))
        /\ \A k \in 1..Len(out.rows) :
              /\ \A c \in Cols(raw) : out.rows[k][c] = RecordsOf(raw)[k][c]
              /\ out.rows[k]["iso3"] = RecordsOf(raw)[k]["country_code"]


-----------------------------------------------------------------------------
(* The runs of the two ETLs side by side: CountryDataETL.run over a source *)
(* file, CityDataETL.run_etl over a list of cities                         *)

InitEtl == InitRun \/ InitCityRun

NextEtl == NextRun \/ NextCityRun

SpecEtl == InitEtl /\ [][NextEtl]_vars

\* the run has come back from transform with a table
TransformReturned ==
    \/ sink = "country" /\ TransformCalled /\ pc # "aborted"
    \/ sink = "city" /\ pc \notin {"cities", "collected", "aborted"}

\* load was called with a table without rows
LoadedNothing == loads > 0 /\ empty(batch)

\* C30: the table CountryDataETL.transform returns holds the rows of the
\* source with at least one non-identifier value, in order and with their
\* values, and no other; for a source without such a row it is the empty
\* table of the early return, with the fields of CountryMetrics as its
\* columns, not the table the range check is run on; CityDataETL.transform
\* returns the empty table for no records; and load called with a table
\* without rows, in either ETL, returns at once: the statement is never
\* executed or committed and the rows of the store stay as they were
C30_EmptyRowsAndEmptyLoad ==
    /\ sink = "country" /\ TransformReturned =>
          /\ Len(out.rows) = Len(RecordsOf(raw))
          /\ \A k \in 1..Len(out.rows) :
                \A c \in Cols(raw) : out.rows[k][c] = RecordsOf(raw)[k][c]
          /\ RecordsOf(raw) = <<>> => out = DataFrame(model_fields, <<>>)
    /\ sink = "country" /\ TransformCalled /\ RecordsOf(raw) = <<>>
          /\ Range(IDENTIFIER_COLUMNS) \subseteq Cols(raw) => pc # "aborted"
    /\ sink = "city" /\ TransformReturned /\ city_data = <<>> =>
          out = DataFrame(<<>>, <<>>)
    /\ TransformReturned /\ empty(out) /\ loads > 0 => LoadedNothing
    /\ LoadedNothing =>
          /\ pc = "returned"
          /\ done = 0
          /\ store = committed
          /\ ~ENABLED ExecuteRow /\ ~ENABLED ExecuteFails /\ ~ENABLED Commit

\* a country run over a store with rows whose source has rows, all without
\* a metric: transform returned the empty table and load returned at once
C30_Witness ==
    /\ sink = "country"
    /\ LoadedNothing
    /\ Len(raw.rows) >= 1
    /\ store # {}
    /\ pc = "returned"

=============================================================================
